---- MODULE Spec2Model ----
(***************************************************************************)
(* Signal lifecycle, live scan scheduler and replay/backtest scheduler of  *)
(* the trading scanner (financia/scanner.py, financia/simulation_scanner.py*)
(* financia/web_api/database.py and the strategies/simulation routers).    *)
(*                                                                         *)
(* Prices are small positive integers; 0 stands for Python's None (the     *)
(* code tests nullable prices by truthiness).  Rounding to 2 or 4 decimals *)
(* is the identity on these integers.  An asyncio coroutine is modelled by *)
(* a program counter whose values are its suspension points (awaits); the  *)
(* code between two awaits is one atomic step.                             *)
(***************************************************************************)
EXTENDS Integers, Sequences, FiniteSets, TLC

\* ------------------------------------------------------------------ bounds
NumItems == 3          \* active watchlist items, one (ticker, strategy) pair each
MaxSignals == 2        \* rows the Signal table may hold
MaxPrice == 4          \* prices range over 1..MaxPrice
MaxLots == 2           \* lots a confirmEntry request may carry
SCAN_BATCH_SIZE == 2   \* scaled-down batch size (10 in the source)

Items == 1..NumItems
Prices == 1..MaxPrice
None == MaxPrice - MaxPrice   \* Python's None / a falsy price

Active == {"pending", "triggered", "entered"}
Terminal == {"stopped", "target_hit", "cancelled", "closed"}

\* Levels a strategy reports with main_condition_met (entry, stop, target).
LongLevels == [entry_price |-> 3, stop_loss |-> 1, take_profit |-> 4]
ShortLevels == [entry_price |-> 2, stop_loss |-> 4, take_profit |-> 1]
NoLevels == [entry_price |-> None, stop_loss |-> None, take_profit |-> None]

VARIABLES
    scheduler,     \* which scheduler object the behaviour follows: "live" / "sim"
    watchlist,     \* number of active watchlist items (items 1..watchlist)
    tm,            \* simulation_time_manager (virtual clock, balance, statistics)
    signals,       \* Signal / SimSignal table: sequence of rows, id = index
    trades,        \* TradeHistory / SimTradeHistory table (append-only sequence)
    is_running,    \* scheduler.is_running
    is_scanning,   \* ScannerService.is_scanning / simulation_time_manager.is_scanning
    taskPc,        \* suspension point of the scheduler's loop task
    cancelReq,     \* task.cancel() was called and CancelledError is not yet delivered
    stopPc,        \* position of a stop() call: "idle", "waiting" (the replay
                   \* stop endpoint: "waiting_tm"), "returned"
    scanPc,        \* per scan_all caller ("loop", "req"): position inside scan_all
    scanBatch,     \* per caller: batch_start
    scanRes,       \* per caller: results of the current batch's _scan_ticker_async tasks
    scanIdx,       \* per caller: next item of the batch whose result is processed
    hist,          \* observation-only history (never read by a guard of the program)
    calc,          \* a call of a BaseStrategy method: arguments and returned values
    cache,         \* SimulationScanner._data_cache: per item, the simulated day
                   \* of the scan that stored the entry (None: no entry)
    simTime,       \* per _scan_all caller: the cycle's sim_time (its day)
    now,           \* now_turkey(): the date and the part of the day
    loopLocals,    \* _scan_loop's locals _was_market_open, _day_end_cleanup_done
    oldTask        \* a loop task that stop() cancelled and that self._task no
                   \* longer refers to: its suspension point and pending cancel

storeVars == <<signals, trades>>
schedVars == <<is_running, is_scanning, taskPc, cancelReq, stopPc>>
scanVars == <<scanPc, scanBatch, scanRes, scanIdx>>
cacheVars == <<cache, simTime>>
wallVars == <<now, loopLocals, oldTask>>
vars == <<scheduler, watchlist, tm, storeVars, schedVars, scanVars, hist, calc, cacheVars,
          wallVars>>

Callers == {"loop", "req"}

\* Dates are day numbers, day 1 a Monday; date.weekday() is 0 for Monday.
Weekday(d) == (d - 1) % 7

FirstDay == 4     \* earliest date (a Thursday)
LastDay == 6      \* latest date (a Saturday)

\* ------------------------------------------------------------- data model
\* StrategyResult as produced by Strategy.evaluate, with the price the scanner
\* attaches to it (real-time price in live mode, last close in replay) and the
\* last candle's High/Low that replay stores in extra_data.
StrategyResults ==
    { [precondition_met |-> pm, main_condition_met |-> mm, direction |-> d,
       entry_price |-> lv.entry_price, stop_loss |-> lv.stop_loss,
       take_profit |-> lv.take_profit, current_price |-> cp,
       last_candle_high |-> hi, last_candle_low |-> lo] :
        pm \in BOOLEAN, mm \in BOOLEAN, d \in {"long", "short"},
        lv \in {LongLevels, ShortLevels, NoLevels},
        cp \in Prices, hi \in Prices, lo \in Prices }

\* What evaluate can return: main implies precondition; levels are set only with
\* the main condition, and match the direction (ema_macd leaves them None when a
\* pivot is missing); a result without precondition is the default long result.
ValidResult(r) ==
    /\ r.main_condition_met => r.precondition_met
    /\ ~r.precondition_met => r.direction = "long"
    /\ ~r.main_condition_met =>
          /\ r.entry_price = None /\ r.stop_loss = None /\ r.take_profit = None
    /\ r.main_condition_met =>
          \/ r.entry_price = None
          \/ (r.direction = "long" /\ r.stop_loss = LongLevels.stop_loss)
          \/ (r.direction = "short" /\ r.stop_loss = ShortLevels.stop_loss)
    /\ r.last_candle_low <= r.current_price
    /\ r.current_price <= r.last_candle_high

\* Live results: the candle range is not used by the live scanner.  The live
\* specification scans long setups; for a row that is already triggered or
\* entered only the price of the result matters.
LiveResults ==
    { r \in StrategyResults :
        /\ ValidResult(r)
        /\ r.last_candle_high = r.current_price
        /\ r.last_candle_low = r.current_price
        /\ r.direction = "long"
        /\ r.current_price # LongLevels.entry_price - 1 =>
              r.main_condition_met /\ r.entry_price # None }

NewSignal(item, status, r) ==
    [ticker |-> item, status |-> status, direction |-> r.direction,
     entry_price |-> IF status = "triggered" THEN r.entry_price ELSE None,
     stop_loss |-> IF status = "triggered" THEN r.stop_loss ELSE None,
     take_profit |-> IF status = "triggered" THEN r.take_profit ELSE None,
     current_price |-> r.current_price,
     entry_reached |-> FALSE, entered_at |-> FALSE,
     actual_entry_price |-> None, lots |-> 0, remaining_lots |-> 0,
     alert |-> "none"]

\* db.query(Signal).filter(ticker, strategy_id, status in active).first():
\* the lowest id among the active rows of the pair, or None.
ActiveIds(sigs, item) ==
    { i \in 1..Len(sigs) : sigs[i].ticker = item /\ sigs[i].status \in Active }

ExistingSignal(sigs, item) ==
    IF ActiveIds(sigs, item) = {} THEN None
    ELSE CHOOSE i \in ActiveIds(sigs, item) : \A j \in ActiveIds(sigs, item) : i <= j

\* Outcome of a handler's work on the tables: the new tables, whether the
\* handler raised (nothing is committed then), and the notifications it sent.
Outcome(sigs, trs, raised, mails) ==
    [signals |-> sigs, trades |-> trs, raised |-> raised, mails |-> mails]


SetField(sigs, id, f, v) == [sigs EXCEPT ![id] = [@ EXCEPT ![f] = v]]

SetPrice(sigs, id, cp) == SetField(sigs, id, "current_price", cp)

\* Price comparisons of _check_entry_exit / check_sl_tp_hit, by direction.
CrossesStop(s, p) ==
    IF s.direction = "long" THEN p <= s.stop_loss ELSE p >= s.stop_loss

CrossesTarget(s, p) ==
    IF s.direction = "long" THEN p >= s.take_profit ELSE p <= s.take_profit

ReachesEntry(s, p) ==
    IF s.direction = "long" THEN p >= s.entry_price ELSE p <= s.entry_price

\* Price units in 10^-2, the step of round(profit_tl, 2): prices carry more
\* decimals (the strategies round their levels to 10^-4) than a trade row's
\* profit_tl.
ProfitStep == 2

\* round(x, 2) of a trade row's profit_tl: the nearest multiple of the step, a
\* tie going to the even multiple.
round2(x) ==
    LET q == x \div ProfitStep
        r == x % ProfitStep
    IN  IF 2 * r < ProfitStep THEN q * ProfitStep
        ELSE IF 2 * r > ProfitStep THEN (q + 1) * ProfitStep
        ELSE IF q % 2 = 0 THEN q * ProfitStep ELSE (q + 1) * ProfitStep

\* win / loss / breakeven from the sign of profit_percent (entry price > 0).
ProfitPerLot(direction, entry, exit) ==
    IF direction = "long" THEN exit - entry ELSE entry - exit

\* ------------------------------------------------------ live: scanner.py
\* ScannerService._close_signal: set the terminal status; a TradeHistory row
\* only if the signal was actually entered (entered_at set).
close_signal(sigs, trs, id, reason, exit_price) ==
    LET s == sigs[id]
        ppl == ProfitPerLot(s.direction, s.entry_price, exit_price)
        trade == [signal_id |-> id, direction |-> s.direction,
                  entry_price |-> s.entry_price, exit_price |-> exit_price,
                  lots |-> 0, profit_tl |-> 0,
                  result |-> IF ppl > 0 THEN "win"
                             ELSE IF ppl < 0 THEN "loss" ELSE "breakeven",
                  reason |-> reason]
    IN  Outcome(SetField(sigs, id, "status", reason),
                IF s.entered_at THEN Append(trs, trade) ELSE trs,
                FALSE, {})

\* _check_entry_exit notifying on every scan that finds the price at the
\* entry level, whether or not entry_reached is already set.
check_entry_exit_renotify(sigs, trs, id, r) ==
    LET cp == r.current_price
        s0 == SetPrice(sigs, id, cp)
        s == s0[id]
    IN  IF s.stop_loss = None THEN Outcome(sigs, trs, TRUE, {})
        ELSE IF CrossesStop(s, cp) THEN close_signal(s0, trs, id, "stopped", cp)
        ELSE IF s.take_profit = None THEN Outcome(sigs, trs, TRUE, {})
        ELSE IF CrossesTarget(s, cp) THEN close_signal(s0, trs, id, "target_hit", cp)
        ELSE IF s.status = "triggered"
        THEN IF s.entry_price = None THEN Outcome(sigs, trs, TRUE, {})
             ELSE IF ReachesEntry(s, cp)
             THEN Outcome(SetField(s0, id, "entry_reached", TRUE), trs, FALSE,
                          {[kind |-> "entryReached", id |-> id]})
             ELSE Outcome(s0, trs, FALSE, {})
        ELSE Outcome(s0, trs, FALSE, {})

\* _check_entry_exit testing the entry level before the stop and the target.
check_entry_exit_entry_first(sigs, trs, id, r) ==
    LET cp == r.current_price
        s0 == SetPrice(sigs, id, cp)
        s == s0[id]
    IN  IF s.stop_loss = None \/ s.take_profit = None \/ s.entry_price = None
        THEN Outcome(sigs, trs, TRUE, {})
        ELSE IF s.status = "triggered" /\ ~s.entry_reached /\ ReachesEntry(s, cp)
        THEN Outcome(SetField(s0, id, "entry_reached", TRUE), trs, FALSE,
                     {[kind |-> "entryReached", id |-> id]})
        ELSE IF CrossesStop(s, cp) THEN close_signal(s0, trs, id, "stopped", cp)
        ELSE IF CrossesTarget(s, cp) THEN close_signal(s0, trs, id, "target_hit", cp)
        ELSE Outcome(s0, trs, FALSE, {})

\* ScannerService._check_entry_exit for a triggered signal.  Comparing a price
\* with a None level raises TypeError (nothing of this item is committed).
check_entry_exit(sigs, trs, id, r) ==
    LET cp == r.current_price
        s0 == SetPrice(sigs, id, cp)
        s == s0[id]
    IN  IF s.stop_loss = None THEN Outcome(sigs, trs, TRUE, {})
        ELSE IF CrossesStop(s, cp) THEN close_signal(s0, trs, id, "stopped", cp)
        ELSE IF s.take_profit = None THEN Outcome(sigs, trs, TRUE, {})
        ELSE IF CrossesTarget(s, cp) THEN close_signal(s0, trs, id, "target_hit", cp)
        ELSE IF s.status = "triggered" /\ ~s.entry_reached
        THEN IF s.entry_price = None THEN Outcome(sigs, trs, TRUE, {})
             ELSE IF ReachesEntry(s, cp)
             THEN Outcome(SetField(s0, id, "entry_reached", TRUE), trs, FALSE,
                          {[kind |-> "entryReached", id |-> id]})
             ELSE Outcome(s0, trs, FALSE, {})
        ELSE Outcome(s0, trs, FALSE, {})

\* ScannerService._check_position_levels: an entered position is never closed
\* by the live scanner; only its current price is updated.
check_position_levels(sigs, trs, id, r) ==
    LET s == sigs[id]
    IN  IF s.stop_loss = None THEN Outcome(sigs, trs, TRUE, {})
        ELSE IF CrossesStop(s, r.current_price)
        THEN Outcome(SetPrice(sigs, id, r.current_price), trs, FALSE, {})
        ELSE IF s.take_profit = None THEN Outcome(sigs, trs, TRUE, {})
        ELSE Outcome(SetPrice(sigs, id, r.current_price), trs, FALSE, {})

\* The creation branch of case 1: an existing row that is neither triggered nor
\* entered is overwritten with "cancelled", and a new triggered row is added.
\* EmailService.send_signal_triggered subtracts the levels: a None level raises
\* TypeError before the commit.
replace_by_triggered(sigs, trs, item, r, existing, mails) ==
    LET cancelled == IF existing # None
                     THEN SetField(sigs, existing, "status", "cancelled")
                     ELSE sigs
    IN  IF mails # {} /\ (r.entry_price = None \/ r.stop_loss = None
                          \/ r.take_profit = None)
        THEN Outcome(sigs, trs, TRUE, {})
        ELSE Outcome(Append(cancelled, NewSignal(item, "triggered", r)), trs, FALSE, mails)

\* ScannerService.email_notifications as set by __init__.
email_notifications == [triggered |-> TRUE, entryReached |-> TRUE]

\* ScannerService._process_result.  existing is the row id found by the
\* caller (None if none); its status is read from the table as it is now.
process_result(sigs, trs, item, r, existing) ==
    LET st == IF existing = None THEN "none" ELSE sigs[existing].status
    IN  IF r.main_condition_met
        THEN IF st = "triggered" THEN check_entry_exit(sigs, trs, existing, r)
             ELSE IF st = "entered" THEN check_position_levels(sigs, trs, existing, r)
             ELSE replace_by_triggered(sigs, trs, item, r, existing,
                     IF email_notifications.triggered
                     THEN {[kind |-> "triggered", id |-> Len(sigs) + 1]} ELSE {})
        ELSE IF r.precondition_met
        THEN IF st = "entered"
             THEN Outcome(SetPrice(sigs, existing, r.current_price), trs, FALSE, {})
             ELSE IF st = "triggered" THEN check_entry_exit(sigs, trs, existing, r)
             ELSE IF st = "none"
             THEN Outcome(Append(sigs, NewSignal(item, "pending", r)), trs, FALSE, {})
             ELSE IF st = "pending"
             THEN Outcome(SetPrice(sigs, existing, r.current_price), trs, FALSE, {})
             ELSE Outcome(sigs, trs, FALSE, {})
        ELSE IF st = "pending"
             THEN Outcome(SetField(sigs, existing, "status", "cancelled"), trs, FALSE, {})
             ELSE IF st = "triggered" THEN check_entry_exit(sigs, trs, existing, r)
             ELSE IF st = "entered"
             THEN Outcome(SetPrice(sigs, existing, r.current_price), trs, FALSE, {})
             ELSE Outcome(sigs, trs, FALSE, {})

\* ScannerService._cleanup_day_end_signals: cancel every pending/triggered row.
cleanup_day_end_signals_all_open(sigs) ==
    [i \in 1..Len(sigs) |->
        IF sigs[i].status \in {"pending", "triggered", "entered"}
        THEN [sigs[i] EXCEPT !.status = "cancelled"]
        ELSE sigs[i]]

cleanup_day_end_signals(sigs) ==
    [i \in 1..Len(sigs) |->
        IF sigs[i].status \in {"pending", "triggered"}
        THEN [sigs[i] EXCEPT !.status = "cancelled"]
        ELSE sigs[i]]

\* --------------------------------------- live: routers/strategies.py
\* cancel_signal: rejected (HTTP 400) for stopped, target_hit and cancelled.
cancel_signal(sigs, id) ==
    IF sigs[id].status \in {"stopped", "target_hit", "cancelled"}
    THEN Outcome(sigs, <<>>, TRUE, {})
    ELSE Outcome(SetField(sigs, id, "status", "cancelled"), <<>>, FALSE, {})

\* confirm_entry: accepted for triggered and pending signals.
confirm_entry(sigs, id, price, lots, sl, tp) ==
    IF sigs[id].status \notin {"triggered", "pending"}
    THEN Outcome(sigs, <<>>, TRUE, {})
    ELSE Outcome([sigs EXCEPT ![id] =
                    [@ EXCEPT !.status = "entered", !.entered_at = TRUE,
                              !.actual_entry_price = price,
                              !.lots = lots, !.remaining_lots = lots,
                              !.stop_loss = IF sl # None THEN sl ELSE @,
                              !.take_profit = IF tp # None THEN tp ELSE @]],
                 <<>>, FALSE, {})

\* The price a manual close uses: actual_entry_price or entry_price.
EntryOf(s) == IF s.actual_entry_price # None THEN s.actual_entry_price ELSE s.entry_price

\* close_position: partial or full exit of an entered signal; one TradeHistory
\* row per accepted request.  Dividing by a zero/None entry price raises.
close_position_always_closes(sigs, trs, id, exit_price, lots) ==
    LET s == sigs[id]
        ppl == ProfitPerLot(s.direction, EntryOf(s), exit_price)
        trade == [signal_id |-> id, direction |-> s.direction,
                  entry_price |-> EntryOf(s), exit_price |-> exit_price,
                  lots |-> lots, profit_tl |-> round2(ppl * lots),
                  result |-> IF ppl > 0 THEN "win" ELSE "loss",
                  reason |-> "manual"]
    IN  IF s.status # "entered" \/ lots <= 0 \/ lots > s.remaining_lots
           \/ EntryOf(s) = None
        THEN Outcome(sigs, trs, TRUE, {})
        ELSE Outcome([sigs EXCEPT ![id] =
                        [@ EXCEPT !.remaining_lots = @ - lots,
                                  !.status = "closed"]],
                     Append(trs, trade), FALSE, {})

close_position(sigs, trs, id, exit_price, lots) ==
    LET s == sigs[id]
        ppl == ProfitPerLot(s.direction, EntryOf(s), exit_price)
        trade == [signal_id |-> id, direction |-> s.direction,
                  entry_price |-> EntryOf(s), exit_price |-> exit_price,
                  lots |-> lots, profit_tl |-> round2(ppl * lots),
                  result |-> IF ppl > 0 THEN "win" ELSE "loss",
                  reason |-> "manual"]
        left == s.remaining_lots - lots
    IN  IF s.status # "entered" \/ lots <= 0 \/ lots > s.remaining_lots
           \/ EntryOf(s) = None
        THEN Outcome(sigs, trs, TRUE, {})
        ELSE Outcome([sigs EXCEPT ![id] =
                        [@ EXCEPT !.remaining_lots = left,
                                  !.status = IF left <= 0 THEN "closed" ELSE @]],
                     Append(trs, trade), FALSE, {})



\* ------------------------------------------- live: the scan cycle (scan_all)
BlankResult ==
    [entry_price |-> None, stop_loss |-> None, take_profit |-> None,
     precondition_met |-> FALSE, main_condition_met |-> FALSE, direction |-> "long",
     current_price |-> 1, last_candle_high |-> 1, last_candle_low |-> 1]

\* What one _scan_ticker_async task returned to gather(return_exceptions=True):
\* kind "ok" with the StrategyResult and the id of the active row it found;
\* "none" for a fetch that timed out or failed (the task returns None);
\* "exc" for a task that raised (gather hands back the exception).
TaskResult(kind, r, existing) == [kind |-> kind, result |-> r, existing |-> existing]

Todo == TaskResult("todo", BlankResult, None)

NoScan == [i \in Items |-> Todo]

FailKinds == {"none", "exc"}

\* watchlist[batch_start : batch_start + SCAN_BATCH_SIZE]
Batch(b) == { i \in 1..watchlist : b < i /\ i <= b + SCAN_BATCH_SIZE }

\* hist: per caller the items whose result the current cycle applied and how
\* the cycle ended; whether the last scan_all call was dropped; whether the
\* step just taken returned from next_day(); the entered rows whose last
\* processed candle held both their stop and their target; the statistics the
\* backtest's post-loop block read; whether the loop task started last was
\* cancelled; the number of day-end cleanups the live loop has run, modulo 2;
\* per kind and row id the number of e-mail notifications handed to
\* EmailService (counted up to 2).
NoSummary ==
    [initial_balance |-> 0, current_balance |-> 0, total_profit |-> 0,
     total_trades |-> 0, winning_trades |-> 0, losing_trades |-> 0]

BlankHist ==
    [applied |-> [p \in Callers |-> {}],
     ended |-> [p \in Callers |-> "no"],
     dropped |-> FALSE,
     next_day |-> FALSE,
     both |-> {},
     finalized |-> FALSE,
     summary |-> NoSummary,
     cancelled |-> FALSE,
     cleanups |-> 0,
     mails |-> [k \in {"triggered", "entryReached"} |-> [id \in 1..MaxSignals |-> 0]],
     scanned |-> <<None, None>>,
     cleaned |-> [d \in FirstDay..LastDay |-> 0]]

\* EmailService.send_signal_triggered / send_signal_entered were called for
\* the notifications in mails.
Sent(counts, mails) ==
    [k \in DOMAIN counts |->
        [id \in DOMAIN counts[k] |->
            IF [kind |-> k, id |-> id] \in mails /\ counts[k][id] < 2
            THEN counts[k][id] + 1 ELSE counts[k][id]]]

\* SimulationScanner._data_cache = {}
NoCache == [i \in Items |-> None]

\* Steps of the live ScannerService leave the simulation objects alone.
LiveFrame ==
    scheduler = "live" /\ UNCHANGED <<scheduler, watchlist, tm, calc, cacheVars, wallVars>>

\* _scan_loop's locals as the coroutine starts.
\* No superseded task.
NoTask == [pc |-> "none", cancelReq |-> FALSE]

FreshLocals == [was_market_open |-> FALSE, day_end_cleanup_done |-> None]

\* _is_bist_market_open: Monday to Friday, 09:30 to 18:30.  The clock's slot
\* is the part of the day that _scan_loop's tests tell apart: "pre" before
\* 09:30, "session" 09:30 to 17:59, "late" 18:00 to 18:30 (hour >= 18, still
\* inside the buffer), "post" after 18:30.
is_bist_market_open(t) == Weekday(t.day) < 5 /\ t.slot \in {"session", "late"}

\* scan_all without the guard: every call starts a cycle.
ScanGuardMutant(flag) == FALSE

\* scan_all, lines 289-297: the single-flight guard.  A call that finds the
\* flag set returns at once; otherwise the flag is set before the first await.
ScanGuard(flag) == flag

LiveScanAllEnter(p) ==
    /\ scanPc[p] = "idle"
    /\ IF ScanGuard(is_scanning)
       THEN /\ hist' = [hist EXCEPT !.dropped = TRUE]
            /\ UNCHANGED <<is_scanning, scanVars>>
       ELSE /\ is_scanning' = TRUE
            /\ scanPc' = [scanPc EXCEPT ![p] = "started"]
            /\ scanBatch' = [scanBatch EXCEPT ![p] = 0]
            /\ scanIdx' = [scanIdx EXCEPT ![p] = 0]
            /\ scanRes' = [scanRes EXCEPT ![p] = NoScan]
            /\ hist' = [hist EXCEPT !.applied[p] = {}, !.ended[p] = "no",
                                    !.dropped = FALSE]

\* POST /scanner/scan-now: trigger_scan_now awaits scanner.scan_all().
TriggerScanNow ==
    /\ LiveScanAllEnter("req")
    /\ UNCHANGED <<storeVars, is_running, taskPc, cancelReq, stopPc>>
    /\ LiveFrame

\* scan_all, lines 299-318: read the active watchlist and start the first batch.
LiveScanLoad(p) ==
    /\ scanPc[p] = "started"
    /\ p = "loop" => ~cancelReq
    /\ scanPc' = [scanPc EXCEPT ![p] = "fetch"]
    /\ UNCHANGED <<storeVars, schedVars, scanBatch, scanRes, scanIdx, hist>>
    /\ LiveFrame

\* scan_all applying results as soon as the first task of a batch is done
\* instead of awaiting gather().
LiveFetchItemEager(p, i, kind, r) ==
    /\ scanPc[p] = "fetch"
    /\ p = "loop" => ~cancelReq
    /\ i \in Batch(scanBatch[p])
    /\ scanRes[p][i].kind = "todo"
    /\ LET res == IF kind = "ok"
                  THEN TaskResult("ok", r, ExistingSignal(signals, i))
                  ELSE TaskResult(kind, BlankResult, None)
       IN  /\ scanRes' = [scanRes EXCEPT ![p][i] = res]
           /\ scanPc' = [scanPc EXCEPT ![p] = "process"]
           /\ scanIdx' = [scanIdx EXCEPT ![p] = scanBatch[p] + 1]
    /\ UNCHANGED <<storeVars, schedVars, scanBatch, hist>>
    /\ LiveFrame

\* One _scan_ticker_async task of the current batch completes: fetch (30 s
\* timeout), evaluate, real-time price, then the query for the active row.
LiveFetchItem(p, i, kind, r) ==
    /\ scanPc[p] = "fetch"
    /\ p = "loop" => ~cancelReq
    /\ i \in Batch(scanBatch[p])
    /\ scanRes[p][i].kind = "todo"
    /\ LET res == IF kind = "ok"
                  THEN TaskResult("ok", r, ExistingSignal(signals, i))
                  ELSE TaskResult(kind, BlankResult, None)
           after == [scanRes[p] EXCEPT ![i] = res]
       IN  /\ scanRes' = [scanRes EXCEPT ![p] = after]
           /\ IF \A j \in Batch(scanBatch[p]) : after[j].kind # "todo"
              THEN /\ scanPc' = [scanPc EXCEPT ![p] = "process"]
                   /\ scanIdx' = [scanIdx EXCEPT ![p] = scanBatch[p] + 1]
              ELSE UNCHANGED <<scanPc, scanIdx>>
    /\ UNCHANGED <<storeVars, schedVars, scanBatch, hist>>
    /\ LiveFrame

\* The table rows a cycle may hold: creation is capped at MaxSignals rows.
Fits(out) == Len(out.signals) <= MaxSignals /\ Len(out.trades) <= MaxSignals

\* scan_all, lines 333-381: apply the next result of the batch, in watchlist
\* order.  An exception of _process_result leaves the loop through the outer
\* "except Exception"; after the last item of a batch the next batch starts,
\* after the last batch the cycle ends.  The finally block resets the flag.
LiveProcessItem(p) ==
    /\ scanPc[p] = "process"
    /\ p = "loop" => ~cancelReq
    /\ LET i == scanIdx[p]
           res == scanRes[p][i]
           out == IF res.kind = "ok"
                  THEN process_result(signals, trades, i, res.result, res.existing)
                  ELSE Outcome(signals, trades, FALSE, {})
           last == i + 1 \notin Batch(scanBatch[p])
           more == scanBatch[p] + SCAN_BATCH_SIZE < watchlist
       IN  /\ Fits(out)
           /\ signals' = out.signals
           /\ trades' = out.trades
           /\ scanRes' = [scanRes EXCEPT ![p][i] = TaskResult(res.kind, BlankResult, None)]
           /\ IF out.raised
              THEN /\ scanPc' = [scanPc EXCEPT ![p] = "finished"]
                   /\ is_scanning' = FALSE
                   /\ hist' = [hist EXCEPT !.ended[p] = "raised"]
                   /\ UNCHANGED <<scanBatch, scanIdx>>
              ELSE /\ hist' = [hist EXCEPT
                                 !.applied[p] = IF res.kind = "ok" THEN @ \cup {i} ELSE @,
                                 !.ended[p] = IF last /\ ~more THEN "normal" ELSE @,
                                 !.mails = Sent(@, out.mails)]
                   /\ scanIdx' = [scanIdx EXCEPT ![p] = i + 1]
                   /\ IF ~last
                      THEN UNCHANGED <<scanPc, scanBatch, is_scanning>>
                      ELSE IF more
                      THEN /\ scanPc' = [scanPc EXCEPT ![p] = "fetch"]
                           /\ scanBatch' = [scanBatch EXCEPT ![p] = @ + SCAN_BATCH_SIZE]
                           /\ UNCHANGED is_scanning
                      ELSE /\ scanPc' = [scanPc EXCEPT ![p] = "finished"]
                           /\ is_scanning' = FALSE
                           /\ UNCHANGED scanBatch
    /\ UNCHANGED <<is_running, taskPc, cancelReq, stopPc>>
    /\ LiveFrame

\* scan_all letting the exception of a failed cycle through to a loop that
\* does not catch it: the loop task ends.
LiveScanReturnEndsLoop(p) ==
    /\ scanPc[p] = "finished" /\ hist.ended[p] # "cancelled"
    /\ p = "loop" => ~cancelReq
    /\ scanPc' = [scanPc EXCEPT ![p] = "idle"]
    /\ scanRes' = [scanRes EXCEPT ![p] = NoScan]
    /\ scanBatch' = [scanBatch EXCEPT ![p] = 0]
    /\ scanIdx' = [scanIdx EXCEPT ![p] = 0]
    /\ taskPc' = IF p # "loop" THEN taskPc
                 ELSE IF hist.ended[p] = "raised" THEN "done" ELSE "top"
    /\ hist' = [hist EXCEPT !.applied[p] = {}, !.ended[p] = "no"]
    /\ UNCHANGED <<storeVars, is_running, is_scanning, cancelReq, stopPc>>
    /\ LiveFrame

\* scan_all returns to its caller after the broadcasts of the finally block.
\* The loop then sleeps for the scan interval.
LiveScanReturn(p) ==
    /\ scanPc[p] = "finished" /\ hist.ended[p] # "cancelled"
    /\ p = "loop" => ~cancelReq
    /\ scanPc' = [scanPc EXCEPT ![p] = "idle"]
    /\ scanRes' = [scanRes EXCEPT ![p] = NoScan]
    /\ scanBatch' = [scanBatch EXCEPT ![p] = 0]
    /\ scanIdx' = [scanIdx EXCEPT ![p] = 0]
    /\ hist' = [hist EXCEPT !.applied[p] = {}, !.ended[p] = "no"]
    /\ taskPc' = IF p = "loop" THEN "top" ELSE taskPc
    /\ UNCHANGED <<storeVars, is_running, is_scanning, cancelReq, stopPc>>
    /\ LiveFrame



\* ------------------------------------------------ live: the loop task
\* _scan_loop, market closed: day-end cleanup when it is due (the clock reads
\* that decide it are inputs), then sleep.
LiveLoopClosed(cleanup) ==
    /\ taskPc = "top" /\ ~cancelReq /\ is_running
    /\ signals' = IF cleanup THEN cleanup_day_end_signals(signals) ELSE signals
    /\ hist' = [hist EXCEPT !.cleanups = IF cleanup THEN 1 - @ ELSE @]
    /\ UNCHANGED <<trades, schedVars, scanVars>>
    /\ LiveFrame

\* _scan_loop, market open: await self.scan_all().
LiveLoopScan ==
    /\ taskPc = "top" /\ ~cancelReq /\ is_running
    /\ LiveScanAllEnter("loop")
    /\ taskPc' = IF ScanGuard(is_scanning) THEN "top" ELSE "scan"
    /\ UNCHANGED <<storeVars, is_running, cancelReq, stopPc>>
    /\ LiveFrame

\* The wall clock moves on to the next part of the day.
Tick ==
    /\ scheduler = "live"
    /\ (now.slot # "post" \/ now.day < LastDay)
    /\ now' = IF now.slot = "pre" THEN [now EXCEPT !.slot = "session"]
              ELSE IF now.slot = "session" THEN [now EXCEPT !.slot = "late"]
              ELSE IF now.slot = "late" THEN [now EXCEPT !.slot = "post"]
              ELSE [day |-> now.day + 1, slot |-> "pre"]
    /\ UNCHANGED <<scheduler, watchlist, tm, storeVars, schedVars, scanVars, hist, calc,
                   cacheVars, loopLocals, oldTask>>

\* _scan_loop running the second cleanup test without looking at
\* _day_end_cleanup_done.
ScanLoopNoMemo ==
    /\ scheduler = "live"
    /\ taskPc = "top" /\ ~cancelReq /\ is_running
    /\ LET today == now.day
           market_open == is_bist_market_open(now)
           first == /\ loopLocals.was_market_open /\ ~market_open
                    /\ loopLocals.day_end_cleanup_done # today
           second == ~market_open /\ Weekday(today) < 5 /\ now.slot \in {"late", "post"}
           runs == (IF first THEN 1 ELSE 0) + (IF second THEN 1 ELSE 0)
       IN  /\ loopLocals' = [was_market_open |-> market_open,
                             day_end_cleanup_done |->
                                 IF first \/ second THEN today
                                 ELSE loopLocals.day_end_cleanup_done]
           /\ IF market_open
              THEN /\ LiveScanAllEnter("loop")
                   /\ taskPc' = IF ScanGuard(is_scanning) THEN "top" ELSE "scan"
                   /\ UNCHANGED <<storeVars, is_running, cancelReq, stopPc>>
              ELSE /\ signals' = IF runs > 0 THEN cleanup_day_end_signals(signals)
                                 ELSE signals
                   /\ hist' = [hist EXCEPT
                                 !.cleanups = IF runs = 1 THEN 1 - @ ELSE @,
                                 !.cleaned[today] = IF @ + runs > 2 THEN 2 ELSE @ + runs]
                   /\ UNCHANGED <<trades, schedVars, scanVars>>
    /\ UNCHANGED <<scheduler, watchlist, tm, calc, cacheVars, now, oldTask>>

\* One pass of _scan_loop with the clock it reads: the cleanup at the
\* transition from open to closed, the cleanup of a closed weekday evening,
\* each unless _day_end_cleanup_done is today; then the sleep of a closed
\* market, or scan_all.
ScanLoop ==
    /\ scheduler = "live"
    /\ taskPc = "top" /\ ~cancelReq /\ is_running
    /\ LET today == now.day
           market_open == is_bist_market_open(now)
           first == /\ loopLocals.was_market_open /\ ~market_open
                    /\ loopLocals.day_end_cleanup_done # today
           done == IF first THEN today ELSE loopLocals.day_end_cleanup_done
           second == /\ ~market_open /\ Weekday(today) < 5
                     /\ now.slot \in {"late", "post"} /\ done # today
           runs == (IF first THEN 1 ELSE 0) + (IF second THEN 1 ELSE 0)
       IN  /\ loopLocals' = [was_market_open |-> market_open,
                             day_end_cleanup_done |-> IF second THEN today ELSE done]
           /\ IF market_open
              THEN /\ LiveScanAllEnter("loop")
                   /\ taskPc' = IF ScanGuard(is_scanning) THEN "top" ELSE "scan"
                   /\ UNCHANGED <<storeVars, is_running, cancelReq, stopPc>>
              ELSE /\ signals' = IF runs > 0 THEN cleanup_day_end_signals(signals)
                                 ELSE signals
                   /\ hist' = [hist EXCEPT
                                 !.cleanups = IF runs = 1 THEN 1 - @ ELSE @,
                                 !.cleaned[today] = IF @ + runs > 2 THEN 2 ELSE @ + runs]
                   /\ UNCHANGED <<trades, schedVars, scanVars>>
    /\ UNCHANGED <<scheduler, watchlist, tm, calc, cacheVars, now, oldTask>>

\* CancelledError is raised in the loop task at the await it is suspended on.
\* asyncio.sleep in _scan_loop: "except CancelledError: break" (stop() always
\* cancels, so the loop never sees is_running false at its while test).  Inside
\* scan_all: the await of line 297 lies before the try (no finally runs); any
\* later await lies inside it (the finally block resets the flag).
LiveCancelDeliver ==
    /\ cancelReq /\ taskPc \in {"top", "scan"}
    /\ cancelReq' = FALSE
    /\ IF taskPc = "top"
       THEN /\ taskPc' = "done"
            /\ hist' = [hist EXCEPT !.cancelled = TRUE]
            /\ UNCHANGED <<is_scanning, scanVars>>
       ELSE IF scanPc["loop"] \in {"fetch", "process"}
       THEN /\ is_scanning' = FALSE
            /\ scanPc' = [scanPc EXCEPT !["loop"] = "finished"]
            /\ hist' = [hist EXCEPT !.ended["loop"] = "cancelled", !.cancelled = TRUE]
            /\ UNCHANGED <<taskPc, scanBatch, scanRes, scanIdx>>
       ELSE /\ taskPc' = "done"
            /\ scanPc' = [scanPc EXCEPT !["loop"] = "idle"]
            /\ scanRes' = [scanRes EXCEPT !["loop"] = NoScan]
            /\ scanBatch' = [scanBatch EXCEPT !["loop"] = 0]
            /\ scanIdx' = [scanIdx EXCEPT !["loop"] = 0]
            /\ hist' = [hist EXCEPT !.applied["loop"] = {}, !.ended["loop"] = "no",
                                    !.cancelled = TRUE]
            /\ UNCHANGED is_scanning
    /\ UNCHANGED <<storeVars, is_running, stopPc>>
    /\ LiveFrame

\* The cancelled task's scan_all left its finally block: the task ends.
LiveCancelledReturn ==
    /\ taskPc = "scan" /\ scanPc["loop"] = "finished" /\ hist.ended["loop"] = "cancelled"
    /\ ~cancelReq
    /\ taskPc' = "done"
    /\ scanPc' = [scanPc EXCEPT !["loop"] = "idle"]
    /\ scanRes' = [scanRes EXCEPT !["loop"] = NoScan]
    /\ scanBatch' = [scanBatch EXCEPT !["loop"] = 0]
    /\ scanIdx' = [scanIdx EXCEPT !["loop"] = 0]
    /\ hist' = [hist EXCEPT !.applied["loop"] = {}, !.ended["loop"] = "no"]
    /\ UNCHANGED <<storeVars, is_running, is_scanning, cancelReq, stopPc>>
    /\ LiveFrame

\* start(): no-op while is_running; else create the loop task.
\* (Control calls are serialized by the caller: no start during a stop.)
LiveStart ==
    /\ ~is_running /\ stopPc # "waiting"
    /\ is_running' = TRUE
    /\ taskPc' = "top"
    /\ stopPc' = "idle"
    /\ hist' = [hist EXCEPT !.cancelled = FALSE,
                            !.cleaned = [d \in FirstDay..LastDay |-> 0]]
    /\ loopLocals' = FreshLocals
    /\ scheduler = "live"
    /\ UNCHANGED <<storeVars, is_scanning, cancelReq, scanVars>>
    /\ UNCHANGED <<scheduler, watchlist, tm, calc, cacheVars, now, oldTask>>

\* stop() returning without awaiting the task.
StopReturnsAtOnce == FALSE

\* Whether stop() awaits the cancelled task before it returns.
StopAwaitsTask == TRUE

\* stop(): is_running = False; if self._task: self._task.cancel(); await
\* self._task.  Cancelling a finished task has no effect.
LiveStopCall ==
    /\ stopPc \in {"idle", "returned"}
    /\ is_running' = FALSE
    /\ cancelReq' = (taskPc \notin {"none", "done"})
    /\ stopPc' = IF taskPc = "none" \/ ~StopAwaitsTask THEN "returned" ELSE "waiting"
    /\ UNCHANGED <<storeVars, is_scanning, taskPc, scanVars, hist>>
    /\ LiveFrame

\* "await self._task" completes once the task has finished.
LiveStopReturn ==
    /\ stopPc = "waiting" /\ taskPc = "done"
    /\ stopPc' = "returned"
    /\ UNCHANGED <<storeVars, is_running, is_scanning, taskPc, cancelReq, scanVars, hist>>
    /\ LiveFrame

\* ------------------------------------------------ live: HTTP endpoints
\* POST /scanner/scan-ticker: scan_ticker fetches, evaluates, queries the
\* active row and processes the result without an await in between.
LiveScanTicker(i, r) ==
    LET out == process_result(signals, trades, i, r, ExistingSignal(signals, i))
    IN  /\ ~out.raised
        /\ Fits(out)
        /\ signals' = out.signals
        /\ trades' = out.trades
        /\ hist' = [hist EXCEPT !.mails = Sent(@, out.mails)]
        /\ UNCHANGED <<schedVars, scanVars>>
        /\ LiveFrame

\* Levels a confirm-entry request may carry (None: keep the signal's).
ConfirmLevels == { <<None, None>>, <<LongLevels.stop_loss, LongLevels.take_profit>> }

LiveConfirmEntry(id, price, lots, lv) ==
    LET out == confirm_entry(signals, id, price, lots, lv[1], lv[2])
    IN  /\ id \in 1..Len(signals)
        /\ signals' = out.signals
        /\ UNCHANGED <<trades, schedVars, scanVars, hist>>
        /\ LiveFrame

LiveClosePosition(id, price, lots) ==
    LET out == close_position(signals, trades, id, price, lots)
    IN  /\ id \in 1..Len(signals)
        /\ Fits(out)
        /\ signals' = out.signals
        /\ trades' = out.trades
        /\ UNCHANGED <<schedVars, scanVars, hist>>
        /\ LiveFrame

LiveCancelSignal(id) ==
    /\ id \in 1..Len(signals)
    /\ signals' = cancel_signal(signals, id).signals
    /\ UNCHANGED <<trades, schedVars, scanVars, hist>>
    /\ LiveFrame

\* ------------------------------------- sim: SimulationTimeManager
OpenHour == 9      \* start(): the session opens at 09:30
CloseHour == 18    \* advance_hour(): the day is completed at hour >= 18

\* _skip_weekend: while weekday() >= 5, move to the next date.
RECURSIVE skip_weekend(_)
skip_weekend(d) == IF Weekday(d) >= 5 THEN skip_weekend(d + 1) ELSE d

\* SimulationTimeManager.__init__ / stop(): no session, default balance.
DefaultBalance == 9    \* scaled-down default balance (100000.0 in the source)

TmReset ==
    [is_active |-> FALSE, is_paused |-> FALSE, day_completed |-> FALSE,
     hour_completed |-> FALSE, day |-> None, hour |-> None, end_date |-> None,
     initial_balance |-> DefaultBalance, current_balance |-> DefaultBalance,
     total_profit |-> 0, total_trades |-> 0, winning_trades |-> 0, losing_trades |-> 0]

\* SimulationTimeManager.start
tm_start(start_date, end_date, initial_balance) ==
    [is_active |-> TRUE, is_paused |-> FALSE, day_completed |-> FALSE,
     hour_completed |-> FALSE, day |-> skip_weekend(start_date), hour |-> OpenHour,
     end_date |-> end_date,
     initial_balance |-> initial_balance, current_balance |-> initial_balance,
     total_profit |-> 0, total_trades |-> 0, winning_trades |-> 0, losing_trades |-> 0]

\* Hours advance_hour adds to the clock.
HourStep == 1

\* Latest hour the clock is advanced to: one hour past the close, which a
\* resume after the end of the day makes reachable.
MaxHour == 19

\* advance_hour leaving the clock where it is.
advance_hour_frozen(t) == [tm |-> t, done |-> FALSE]

\* SimulationTimeManager.advance_hour: the new manager and the returned flag.
advance_hour(t) ==
    IF ~t.is_active \/ t.day = None THEN [tm |-> t, done |-> FALSE]
    ELSE IF t.hour + HourStep >= CloseHour
    THEN [tm |-> [t EXCEPT !.hour = @ + HourStep, !.day_completed = TRUE], done |-> TRUE]
    ELSE [tm |-> [t EXCEPT !.hour = @ + HourStep], done |-> FALSE]

\* SimulationTimeManager.next_day: the new manager and the returned flag
\* (True: the simulation is complete).
next_day(t) ==
    LET d == skip_weekend(t.day + 1)
    IN  IF ~t.is_active \/ t.day = None THEN [tm |-> t, complete |-> TRUE]
        ELSE IF d > t.end_date
        THEN [tm |-> [t EXCEPT !.day = d, !.hour = OpenHour], complete |-> TRUE]
        ELSE [tm |-> [t EXCEPT !.day = d, !.hour = OpenHour, !.day_completed = FALSE,
                               !.is_paused = FALSE, !.hour_completed = FALSE],
              complete |-> FALSE]

\* SimulationTimeManager.get_balance_stats (the counters it reports).
get_balance_stats(t) ==
    [initial_balance |-> t.initial_balance, current_balance |-> t.current_balance,
     total_profit |-> t.total_profit, total_trades |-> t.total_trades,
     winning_trades |-> t.winning_trades, losing_trades |-> t.losing_trades]

\* The statistics update shared by every closing path of the simulation:
\* balance += exit_price * lots; total_profit += profit_tl; counters.
RecordClose(t, exit_price, lots, profit_tl, win) ==
    [t EXCEPT !.current_balance = @ + exit_price * lots,
              !.total_profit = @ + profit_tl,
              !.total_trades = @ + 1,
              !.winning_trades = IF win THEN @ + 1 ELSE @,
              !.losing_trades = IF win THEN @ ELSE @ + 1]

\* ------------------------------------- sim: simulation_scanner.py (store)
SimOutcome(sigs, trs, t, raised) ==
    [signals |-> sigs, trades |-> trs, tm |-> t, raised |-> raised]

\* check_sl_tp_hit with the target tested before the stop.
check_sl_tp_hit_target_first(s, r) ==
    IF r.last_candle_high = None \/ r.last_candle_low = None
       \/ s.stop_loss = None \/ s.take_profit = None THEN "none"
    ELSE IF s.direction = "long"
    THEN IF r.last_candle_high >= s.take_profit THEN "tp_hit"
         ELSE IF r.last_candle_low <= s.stop_loss THEN "sl_hit" ELSE "none"
    ELSE IF r.last_candle_low <= s.take_profit THEN "tp_hit"
         ELSE IF r.last_candle_high >= s.stop_loss THEN "sl_hit" ELSE "none"

\* _process_result.check_sl_tp_hit: did the last candle's range touch the
\* stop or the target of the signal; the stop is tested first.
check_sl_tp_hit(s, r) ==
    IF r.last_candle_high = None \/ r.last_candle_low = None
       \/ s.stop_loss = None \/ s.take_profit = None THEN "none"
    ELSE IF s.direction = "long"
    THEN IF r.last_candle_low <= s.stop_loss THEN "sl_hit"
         ELSE IF r.last_candle_high >= s.take_profit THEN "tp_hit" ELSE "none"
    ELSE IF r.last_candle_high >= s.stop_loss THEN "sl_hit"
         ELSE IF r.last_candle_low <= s.take_profit THEN "tp_hit" ELSE "none"

\* _process_result.apply_sl_tp_alert on an entered row, with the price update.
apply_sl_tp_alert(sigs, id, r) ==
    [sigs EXCEPT ![id] = [@ EXCEPT !.current_price = r.current_price,
                                   !.alert = check_sl_tp_hit(sigs[id], r)]]

\* SimulationScanner._close_signal
sim_close_signal(sigs, trs, t, id, reason, exit_price) ==
    LET s == sigs[id]
        ppl == ProfitPerLot(s.direction, EntryOf(s), exit_price)
        trade == [signal_id |-> id, direction |-> s.direction,
                  entry_price |-> EntryOf(s), exit_price |-> exit_price,
                  lots |-> s.lots, profit_tl |-> round2(ppl * s.lots),
                  result |-> IF ppl > 0 THEN "win" ELSE "loss",
                  reason |-> reason]
        closed == SetField(sigs, id, "status", reason)
    IN  IF ~s.entered_at THEN SimOutcome(closed, trs, t, FALSE)
        ELSE IF EntryOf(s) = None THEN SimOutcome(sigs, trs, t, TRUE)
        ELSE SimOutcome(closed, Append(trs, trade),
                        RecordClose(t, exit_price, s.lots, ppl * s.lots, ppl > 0), FALSE)

\* SimulationScanner._check_entry_exit (no notifications in simulation).
sim_check_entry_exit(sigs, trs, t, id, r) ==
    LET cp == r.current_price
        s0 == [sigs EXCEPT ![id] = [@ EXCEPT !.current_price = cp, !.alert = "none"]]
        s == s0[id]
    IN  IF s.stop_loss = None THEN SimOutcome(sigs, trs, t, TRUE)
        ELSE IF CrossesStop(s, cp) THEN sim_close_signal(s0, trs, t, id, "stopped", cp)
        ELSE IF s.take_profit = None THEN SimOutcome(sigs, trs, t, TRUE)
        ELSE IF CrossesTarget(s, cp) THEN sim_close_signal(s0, trs, t, id, "target_hit", cp)
        ELSE IF s.status = "triggered" /\ ~s.entry_reached
        THEN IF s.entry_price = None THEN SimOutcome(sigs, trs, t, TRUE)
             ELSE IF ReachesEntry(s, cp)
             THEN SimOutcome(SetField(s0, id, "entry_reached", TRUE), trs, t, FALSE)
             ELSE SimOutcome(s0, trs, t, FALSE)
        ELSE SimOutcome(s0, trs, t, FALSE)

\* SimulationScanner._check_position_levels: compares, prints, commits.
sim_check_position_levels(sigs, trs, t, id, r) ==
    LET s == sigs[id]
    IN  IF s.stop_loss = None THEN SimOutcome(sigs, trs, t, TRUE)
        ELSE IF CrossesStop(s, r.current_price)
        THEN SimOutcome(apply_sl_tp_alert(sigs, id, r), trs, t, FALSE)
        ELSE IF s.take_profit = None THEN SimOutcome(sigs, trs, t, TRUE)
        ELSE SimOutcome(apply_sl_tp_alert(sigs, id, r), trs, t, FALSE)

\* SimulationScanner._process_result
sim_process_result(sigs, trs, t, item, r, existing) ==
    LET st == IF existing = None THEN "none" ELSE sigs[existing].status
        cancelled == IF existing # None
                     THEN SetField(sigs, existing, "status", "cancelled")
                     ELSE sigs
    IN  IF r.main_condition_met
        THEN IF st = "triggered" THEN sim_check_entry_exit(sigs, trs, t, existing, r)
             ELSE IF st = "entered" THEN sim_check_position_levels(sigs, trs, t, existing, r)
             ELSE SimOutcome(Append(cancelled, NewSignal(item, "triggered", r)), trs, t, FALSE)
        ELSE IF r.precondition_met
        THEN IF st = "entered"
             THEN SimOutcome(apply_sl_tp_alert(sigs, existing, r), trs, t, FALSE)
             ELSE IF st = "triggered" THEN sim_check_entry_exit(sigs, trs, t, existing, r)
             ELSE IF st = "none"
             THEN SimOutcome(Append(sigs, NewSignal(item, "pending", r)), trs, t, FALSE)
             ELSE IF st = "pending"
             THEN SimOutcome(SetPrice(sigs, existing, r.current_price), trs, t, FALSE)
             ELSE SimOutcome(sigs, trs, t, FALSE)
        ELSE IF st = "pending"
             THEN SimOutcome(SetField(sigs, existing, "status", "cancelled"), trs, t, FALSE)
             ELSE IF st = "triggered" THEN sim_check_entry_exit(sigs, trs, t, existing, r)
             ELSE IF st = "entered"
             THEN SimOutcome(apply_sl_tp_alert(sigs, existing, r), trs, t, FALSE)
             ELSE SimOutcome(sigs, trs, t, FALSE)

\* SimulationScanner._cleanup_day_end_signals
sim_cleanup_day_end_signals(sigs) ==
    [i \in 1..Len(sigs) |->
        IF sigs[i].status \in {"pending", "triggered"}
        THEN [sigs[i] EXCEPT !.status = "cancelled"]
        ELSE sigs[i]]

\* ------------------------------------- sim: backtest trading
\* SimulationScanner._backtest_close_position: the trade row, the balance
\* credit of exit_price * lots (for either direction) and the statistics.
backtest_close_position_keeps_open(sigs, trs, t, id, exit_price, reason) ==
    LET s == sigs[id]
        lots == IF s.lots = 0 THEN 1 ELSE s.lots
        ppl == ProfitPerLot(s.direction, EntryOf(s), exit_price)
        trade == [signal_id |-> id, direction |-> s.direction,
                  entry_price |-> EntryOf(s), exit_price |-> exit_price,
                  lots |-> lots, profit_tl |-> round2(ppl * lots),
                  result |-> IF ppl > 0 THEN "win" ELSE "loss",
                  reason |-> reason]
    IN  IF EntryOf(s) = None \/ exit_price = None THEN SimOutcome(sigs, trs, t, TRUE)
        ELSE SimOutcome(sigs, Append(trs, trade),
                        RecordClose(t, exit_price, lots, ppl * lots, ppl > 0), FALSE)

backtest_close_position(sigs, trs, t, id, exit_price, reason) ==
    LET s == sigs[id]
        lots == IF s.lots = 0 THEN 1 ELSE s.lots
        ppl == ProfitPerLot(s.direction, EntryOf(s), exit_price)
        trade == [signal_id |-> id, direction |-> s.direction,
                  entry_price |-> EntryOf(s), exit_price |-> exit_price,
                  lots |-> lots, profit_tl |-> round2(ppl * lots),
                  result |-> IF ppl > 0 THEN "win" ELSE "loss",
                  reason |-> reason]
    IN  IF EntryOf(s) = None \/ exit_price = None THEN SimOutcome(sigs, trs, t, TRUE)
        ELSE SimOutcome([sigs EXCEPT ![id] = [@ EXCEPT !.status = reason,
                                                      !.remaining_lots = 0]],
                        Append(trs, trade),
                        RecordClose(t, exit_price, lots, ppl * lots, ppl > 0), FALSE)

\* _backtest_auto_trade, step 1: entered rows from id on, in id order; a row
\* with an alert is closed at its stop / target price.  An exception ends the
\* function (what was committed stays).
RECURSIVE auto_exit(_, _, _, _)
auto_exit(sigs, trs, t, id) ==
    IF id > Len(sigs) THEN SimOutcome(sigs, trs, t, FALSE)
    ELSE LET s == sigs[id]
             out == IF s.alert = "sl_hit" /\ s.stop_loss # None
                    THEN backtest_close_position(sigs, trs, t, id, s.stop_loss, "stopped")
                    ELSE IF s.alert = "tp_hit" /\ s.take_profit # None
                    THEN backtest_close_position(sigs, trs, t, id, s.take_profit, "target_hit")
                    ELSE SimOutcome(sigs, trs, t, FALSE)
         IN  IF s.status # "entered" THEN auto_exit(sigs, trs, t, id + 1)
             ELSE IF out.raised THEN out
             ELSE auto_exit(out.signals, out.trades, out.tm, id + 1)

\* _backtest_auto_trade, step 2: triggered rows with entry_reached are entered
\* with one lot at their entry price if the balance covers the cost.
RECURSIVE auto_enter(_, _, _)
auto_enter(sigs, t, id) ==
    IF id > Len(sigs) THEN [signals |-> sigs, tm |-> t]
    ELSE LET s == sigs[id]
         IN  IF s.status = "triggered" /\ s.entry_reached /\ s.entry_price # None
                /\ s.entry_price <= t.current_balance
             THEN auto_enter([sigs EXCEPT ![id] =
                                 [@ EXCEPT !.status = "entered", !.entered_at = TRUE,
                                           !.actual_entry_price = s.entry_price,
                                           !.lots = 1, !.remaining_lots = 1]],
                             [t EXCEPT !.current_balance = @ - s.entry_price],
                             id + 1)
             ELSE auto_enter(sigs, t, id + 1)

RECURSIVE auto_enter_unchecked(_, _, _)
auto_enter_unchecked(sigs, t, id) ==
    IF id > Len(sigs) THEN [signals |-> sigs, tm |-> t]
    ELSE LET s == sigs[id]
         IN  IF s.status = "triggered" /\ s.entry_reached /\ s.entry_price # None
             THEN auto_enter_unchecked([sigs EXCEPT ![id] =
                                 [@ EXCEPT !.status = "entered", !.entered_at = TRUE,
                                           !.actual_entry_price = s.entry_price,
                                           !.lots = 1, !.remaining_lots = 1]],
                             [t EXCEPT !.current_balance = @ - s.entry_price],
                             id + 1)
             ELSE auto_enter_unchecked(sigs, t, id + 1)

backtest_auto_trade_unchecked(sigs, trs, t) ==
    LET ex == auto_exit(sigs, trs, t, 1)
        en == auto_enter_unchecked(ex.signals, ex.tm, 1)
    IN  IF ex.raised THEN SimOutcome(ex.signals, ex.trades, ex.tm, FALSE)
        ELSE SimOutcome(en.signals, ex.trades, en.tm, FALSE)

backtest_auto_trade_entry_only(sigs, trs, t) ==
    LET en == auto_enter(sigs, t, 1)
    IN  SimOutcome(en.signals, trs, en.tm, FALSE)

backtest_auto_trade_exit_only(sigs, trs, t) ==
    LET ex == auto_exit(sigs, trs, t, 1)
    IN  SimOutcome(ex.signals, ex.trades, ex.tm, FALSE)

\* SimulationScanner._backtest_auto_trade
backtest_auto_trade(sigs, trs, t) ==
    LET ex == auto_exit(sigs, trs, t, 1)
        en == auto_enter(ex.signals, ex.tm, 1)
    IN  IF ex.raised THEN SimOutcome(ex.signals, ex.trades, ex.tm, FALSE)
        ELSE SimOutcome(en.signals, ex.trades, en.tm, FALSE)

\* SimulationScanner._backtest_close_eod_positions: every entered row is closed
\* as "stopped" at current_price (or entry_price).
RECURSIVE backtest_close_eod_positions(_, _, _, _)
backtest_close_eod_positions(sigs, trs, t, id) ==
    IF id > Len(sigs) THEN SimOutcome(sigs, trs, t, FALSE)
    ELSE LET s == sigs[id]
             eod_price == IF s.current_price # None THEN s.current_price ELSE s.entry_price
             out == backtest_close_position(sigs, trs, t, id, eod_price, "stopped")
         IN  IF s.status # "entered" THEN backtest_close_eod_positions(sigs, trs, t, id + 1)
             ELSE IF out.raised THEN SimOutcome(sigs, trs, t, FALSE)
             ELSE backtest_close_eod_positions(out.signals, out.trades, out.tm, id + 1)

\* ------------------------------------- sim: the scan cycle (_scan_all)
SimFrame == scheduler = "sim" /\ UNCHANGED <<scheduler, watchlist, calc, wallVars>>

\* Both levels of the row lie within the last candle's high-low range.
BothInRange(s, r) ==
    /\ s.stop_loss # None /\ s.take_profit # None
    /\ r.last_candle_low <= s.stop_loss /\ s.stop_loss <= r.last_candle_high
    /\ r.last_candle_low <= s.take_profit /\ s.take_profit <= r.last_candle_high

\* Would applying r for the item add a row to the table.
CreatesRow(sigs, i, r) ==
    LET e == ExistingSignal(sigs, i)
        st == IF e = None THEN "none" ELSE sigs[e].status
    IN  \/ r.main_condition_met /\ st \in {"none", "pending"}
        \/ ~r.main_condition_met /\ r.precondition_met /\ st = "none"

\* _scan_all, lines 809-833: no guard on the is_scanning flag; the flag is set
\* before the first await.  (The clock is set and the watchlist is not empty
\* whenever a caller gets here.)
SimScanAllEnter(p) ==
    /\ scanPc[p] = "idle"
    /\ tm.day # None /\ watchlist > 0
    /\ is_scanning' = TRUE
    /\ scanPc' = [scanPc EXCEPT ![p] = "fetch"]
    /\ scanBatch' = [scanBatch EXCEPT ![p] = 0]
    /\ scanIdx' = [scanIdx EXCEPT ![p] = 0]
    /\ scanRes' = [scanRes EXCEPT ![p] = NoScan]
    /\ simTime' = [simTime EXCEPT ![p] = tm.day]
    /\ hist' = [hist EXCEPT !.applied[p] = {}, !.ended[p] = "no", !.next_day = FALSE]
    /\ UNCHANGED cache

\* One _scan_ticker_async task of the current batch completes, with the id of
\* the active row it found.  (Results that would add a row are drawn only
\* while the table has room.)
SimFetchItem(p, i, kind, r) ==
    /\ scanPc[p] = "fetch"
    /\ p = "loop" => ~cancelReq
    /\ i \in Batch(scanBatch[p])
    /\ scanRes[p][i].kind = "todo"
    /\ (kind = "ok" /\ CreatesRow(signals, i, r)) => Len(signals) < MaxSignals
    /\ LET res == IF kind = "ok"
                  THEN TaskResult("ok", r, ExistingSignal(signals, i))
                  ELSE TaskResult(kind, BlankResult, None)
           after == [scanRes[p] EXCEPT ![i] = res]
       IN  /\ scanRes' = [scanRes EXCEPT ![p] = after]
           /\ IF \A j \in Batch(scanBatch[p]) : after[j].kind # "todo"
              THEN /\ scanPc' = [scanPc EXCEPT ![p] = "process"]
                   /\ scanIdx' = [scanIdx EXCEPT ![p] = scanBatch[p] + 1]
              ELSE UNCHANGED <<scanPc, scanIdx>>
    /\ cache' = IF kind = "ok" /\ cache[i] = None
                THEN [cache EXCEPT ![i] = simTime[p]] ELSE cache
    /\ UNCHANGED <<storeVars, schedVars, scanBatch, hist, tm, simTime>>
    /\ SimFrame

\* _scan_all, lines 850-905: apply the next result of the batch.  An exception
\* ends the cycle through "except Exception" (flag reset); so does the last
\* item of the last batch.  (The return to the caller is a step of its own.)
SimProcessItem(p) ==
    /\ scanPc[p] = "process"
    /\ p = "loop" => ~cancelReq
    /\ LET i == scanIdx[p]
           res == scanRes[p][i]
           out == IF res.kind = "ok"
                  THEN sim_process_result(signals, trades, tm, i, res.result, res.existing)
                  ELSE SimOutcome(signals, trades, tm, FALSE)
           last == i + 1 \notin Batch(scanBatch[p])
           more == scanBatch[p] + SCAN_BATCH_SIZE < watchlist
           e == res.existing
           both == IF res.kind = "ok" /\ e # None /\ ~out.raised
                      /\ signals[e].status = "entered"
                   THEN IF BothInRange(signals[e], res.result)
                        THEN hist.both \cup {e} ELSE hist.both \ {e}
                   ELSE hist.both
       IN  /\ Fits(out)
           /\ signals' = out.signals
           /\ trades' = out.trades
           /\ tm' = out.tm
           /\ scanRes' = [scanRes EXCEPT ![p][i] = TaskResult(res.kind, BlankResult, None)]
           /\ IF out.raised
              THEN /\ scanPc' = [scanPc EXCEPT ![p] = "finished"]
                   /\ is_scanning' = FALSE
                   /\ hist' = [hist EXCEPT !.ended[p] = "raised"]
                   /\ UNCHANGED <<scanBatch, scanIdx>>
              ELSE /\ hist' = [hist EXCEPT
                                 !.applied[p] = IF res.kind = "ok" THEN @ \cup {i} ELSE @,
                                 !.ended[p] = IF last /\ ~more THEN "normal" ELSE @,
                                 !.both = both]
                   /\ scanIdx' = [scanIdx EXCEPT ![p] = i + 1]
                   /\ IF ~last
                      THEN UNCHANGED <<scanPc, scanBatch, is_scanning>>
                      ELSE IF more
                      THEN /\ scanPc' = [scanPc EXCEPT ![p] = "fetch"]
                           /\ scanBatch' = [scanBatch EXCEPT ![p] = @ + SCAN_BATCH_SIZE]
                           /\ UNCHANGED is_scanning
                      ELSE /\ scanPc' = [scanPc EXCEPT ![p] = "finished"]
                           /\ is_scanning' = FALSE
                           /\ UNCHANGED scanBatch
    /\ UNCHANGED <<is_running, taskPc, cancelReq, stopPc, cacheVars>>
    /\ SimFrame

\* The caller's cycle is over: its bookkeeping is dropped.
ScanVarsReset(p) ==
    /\ scanPc' = [scanPc EXCEPT ![p] = "idle"]
    /\ scanRes' = [scanRes EXCEPT ![p] = NoScan]
    /\ scanBatch' = [scanBatch EXCEPT ![p] = 0]
    /\ scanIdx' = [scanIdx EXCEPT ![p] = 0]
    /\ simTime' = [simTime EXCEPT ![p] = None]

\* ------------------------------------- sim: the backtest loop task
\* The post-loop block of _backtest_loop up to its first await: the summary
\* statistics are read from the time manager.
PostLoop(t) ==
    /\ taskPc' = "bt_post"
    /\ hist' = [hist EXCEPT !.finalized = TRUE, !.summary = get_balance_stats(t),
                            !.next_day = FALSE]

\* "is_complete = next_day()" and what follows it in the loop body: break to
\* the post-loop block, or clear the cache and sleep(0).
NextDayThen(t) ==
    LET n == next_day(t)
    IN  /\ tm' = n.tm
        /\ IF n.complete
           THEN /\ taskPc' = "bt_post"
                /\ hist' = [hist EXCEPT !.finalized = TRUE,
                                        !.summary = get_balance_stats(n.tm),
                                        !.next_day = TRUE]
                /\ UNCHANGED cache
           ELSE /\ taskPc' = "bt_top"
                /\ hist' = [hist EXCEPT !.next_day = TRUE]
                /\ cache' = NoCache

\* POST /simulation/backtest/start with a valid date range, while no run is in
\* progress: clear the tables, start the clock, create the loop task.
StartBacktest(start_date, end_date, balance) ==
    /\ ~is_running /\ stopPc \notin {"waiting", "waiting_tm"}
    /\ taskPc \in {"none", "done"} /\ scanPc["req"] = "idle"
    /\ start_date <= end_date
    /\ signals' = <<>>
    /\ trades' = <<>>
    /\ tm' = tm_start(start_date, end_date, balance)
    /\ is_running' = TRUE
    /\ taskPc' = "bt_top"
    /\ stopPc' = "idle"
    /\ hist' = BlankHist
    /\ cache' = NoCache
    /\ UNCHANGED <<is_scanning, cancelReq, scanVars, simTime>>
    /\ SimFrame

\* One pass of "while self.is_running and is_active" up to the first await of
\* _scan_all.  fault: an exception escapes to the loop's "except Exception"
\* (a database session that cannot be opened or closed); the handler advances
\* the clock on its own.
BtIterate(fault) ==
    /\ taskPc = "bt_top" /\ ~cancelReq
    /\ IF ~(is_running /\ tm.is_active) \/ tm.day = None
       THEN /\ PostLoop(tm)
            /\ UNCHANGED <<tm, is_scanning, scanVars, cacheVars>>
       ELSE IF fault
       THEN LET a == advance_hour(tm)
            IN  /\ IF a.done THEN NextDayThen(a.tm)
                   ELSE /\ tm' = a.tm
                        /\ hist' = [hist EXCEPT !.next_day = FALSE]
                        /\ UNCHANGED <<taskPc, cache>>
                /\ UNCHANGED <<is_scanning, scanVars, simTime>>
       ELSE /\ SimScanAllEnter("loop")
            /\ taskPc' = "bt_scan"
            /\ UNCHANGED tm
    /\ UNCHANGED <<storeVars, is_running, cancelReq, stopPc>>
    /\ SimFrame

\* _scan_all returned: _backtest_auto_trade, advance_hour and, when the day is
\* done, _backtest_close_eod_positions and _cleanup_day_end_signals, which
\* awaits a broadcast if it cancelled anything; otherwise on to next_day.
BtTradeAdvance ==
    /\ taskPc = "bt_scan" /\ scanPc["loop"] = "finished" /\ ~cancelReq
    /\ \E at \in { backtest_auto_trade(signals, trades, tm) } :
       \E a \in { advance_hour(at.tm) } :
          IF ~a.done
          THEN /\ signals' = at.signals
               /\ trades' = at.trades
               /\ tm' = a.tm
               /\ taskPc' = "bt_top"
               /\ hist' = [hist EXCEPT !.next_day = FALSE]
               /\ UNCHANGED cache
          ELSE \E eod \in { backtest_close_eod_positions(at.signals, at.trades, a.tm, 1) } :
               \E cleaned \in { sim_cleanup_day_end_signals(eod.signals) } :
                  /\ signals' = cleaned
                  /\ trades' = eod.trades
                  /\ IF cleaned # eod.signals
                     THEN /\ tm' = eod.tm
                          /\ taskPc' = "bt_eod"
                          /\ hist' = [hist EXCEPT !.next_day = FALSE]
                          /\ UNCHANGED cache
                     ELSE NextDayThen(eod.tm)
    /\ ScanVarsReset("loop")
    /\ UNCHANGED <<is_running, is_scanning, cancelReq, stopPc>>
    /\ SimFrame

\* The broadcast of _cleanup_day_end_signals is over: next_day.
BtNextDay ==
    /\ taskPc = "bt_eod" /\ ~cancelReq
    /\ NextDayThen(tm)
    /\ UNCHANGED <<storeVars, is_running, is_scanning, cancelReq, stopPc, scanVars, simTime>>
    /\ SimFrame

\* The post-loop block after its sleep: broadcast, e-mail, is_running = False.
BtFinish ==
    /\ taskPc = "bt_post" /\ ~cancelReq
    /\ is_running' = FALSE
    /\ taskPc' = "done"
    /\ UNCHANGED <<storeVars, tm, is_scanning, cancelReq, stopPc, scanVars, hist, cacheVars>>
    /\ SimFrame

\* CancelledError reaches the backtest task at its await: "except
\* CancelledError: break" leads to the post-loop block (_scan_all has no
\* handler for it and leaves the flag as it is); inside the post-loop block the
\* handler sets is_running = False.
BtCancelDeliver ==
    /\ cancelReq /\ taskPc \in {"bt_top", "bt_scan", "bt_eod", "bt_post"}
    /\ cancelReq' = FALSE
    /\ IF taskPc = "bt_post"
       THEN /\ is_running' = FALSE
            /\ taskPc' = "done"
            /\ hist' = [hist EXCEPT !.cancelled = TRUE]
            /\ UNCHANGED <<scanVars, simTime>>
       ELSE /\ taskPc' = "bt_post"
            /\ hist' = [hist EXCEPT !.finalized = TRUE, !.summary = get_balance_stats(tm),
                                    !.next_day = FALSE, !.cancelled = TRUE]
            /\ IF taskPc = "bt_scan" THEN ScanVarsReset("loop")
               ELSE UNCHANGED <<scanVars, simTime>>
            /\ UNCHANGED is_running
    /\ UNCHANGED <<storeVars, tm, is_scanning, stopPc, cache>>
    /\ SimFrame

\* POST /simulation/backtest/stop: simulation_time_manager.stop(), then
\* simulation_scanner.stop(), which cancels the task and awaits it.
StopBacktest ==
    /\ tm.is_active /\ stopPc \in {"idle", "returned"}
    /\ tm' = TmReset
    /\ is_scanning' = FALSE
    /\ is_running' = FALSE
    /\ cancelReq' = (taskPc \notin {"none", "done"})
    /\ stopPc' = IF taskPc = "none" \/ ~StopAwaitsTask THEN "returned" ELSE "waiting"
    /\ cache' = NoCache
    /\ UNCHANGED <<storeVars, taskPc, scanVars, hist, simTime>>
    /\ SimFrame

\* "await self._task" of SimulationScanner.stop completes.
SimStopReturn ==
    /\ stopPc = "waiting"
    /\ IF oldTask = NoTask THEN taskPc = "done" ELSE oldTask.pc = "done"
    /\ stopPc' = "returned"
    /\ oldTask' = NoTask
    /\ UNCHANGED <<storeVars, tm, is_running, is_scanning, taskPc, cancelReq, scanVars, hist,
                   cacheVars>>
    /\ scheduler = "sim" /\ UNCHANGED <<scheduler, watchlist, calc, now, loopLocals>>

\* POST /simulation/backtest/start while a stop() call still awaits the task
\* it cancelled: is_running is already False, so start_backtest creates a
\* second task and stores it in self._task; the first task goes on to its
\* handler and its post-loop block.
StartBacktestDuringStop(start_date, end_date, balance) ==
    /\ ~is_running /\ stopPc = "waiting"
    /\ taskPc \in {"bt_top", "bt_scan", "bt_eod", "bt_post"}
    /\ oldTask = NoTask
    /\ start_date <= end_date
    /\ signals' = <<>>
    /\ trades' = <<>>
    /\ tm' = tm_start(start_date, end_date, balance)
    /\ is_running' = TRUE
    /\ oldTask' = [pc |-> taskPc, cancelReq |-> cancelReq]
    /\ taskPc' = "bt_top"
    /\ cancelReq' = FALSE
    /\ hist' = BlankHist
    /\ cache' = NoCache
    /\ ScanVarsReset("loop")
    /\ UNCHANGED <<is_scanning, stopPc>>
    /\ scheduler = "sim" /\ UNCHANGED <<scheduler, watchlist, calc, now, loopLocals>>

\* A step of the superseded task: CancelledError reaches it (inside the loop:
\* break to the post-loop block and its sleep; inside the post-loop block: the
\* handler), or the post-loop block runs to its end.  Either end writes
\* is_running = False on the scanner the new task runs on.
OldTaskStep ==
    /\ oldTask.pc \in {"bt_top", "bt_scan", "bt_eod", "bt_post"}
    /\ IF oldTask.cancelReq /\ oldTask.pc # "bt_post"
       THEN /\ oldTask' = [pc |-> "bt_post", cancelReq |-> FALSE]
            /\ hist' = [hist EXCEPT !.finalized = TRUE, !.summary = get_balance_stats(tm),
                                    !.cancelled = TRUE]
            /\ UNCHANGED is_running
       ELSE /\ oldTask' = [pc |-> "done", cancelReq |-> FALSE]
            /\ is_running' = FALSE
            /\ UNCHANGED hist
    /\ UNCHANGED <<storeVars, tm, is_scanning, taskPc, cancelReq, stopPc, scanVars, cacheVars>>
    /\ scheduler = "sim" /\ UNCHANGED <<scheduler, watchlist, calc, now, loopLocals>>

\* ------------------------------------- sim: the replay loop task
\* POST /simulation/start with a valid date range, on a stopped simulation
\* with no scan request in progress: clear the tables, start the clock,
\* SimulationScanner.start creates the loop task.
StartReplay(start_date, end_date, balance) ==
    /\ ~tm.is_active /\ ~is_running /\ stopPc \notin {"waiting", "waiting_tm"}
    /\ taskPc \in {"none", "done"} /\ scanPc["req"] = "idle"
    /\ start_date <= end_date
    /\ signals' = <<>>
    /\ trades' = <<>>
    /\ tm' = tm_start(start_date, end_date, balance)
    /\ is_running' = TRUE
    /\ taskPc' = "rp_top"
    /\ stopPc' = "idle"
    /\ hist' = BlankHist
    /\ cache' = NoCache
    /\ UNCHANGED <<is_scanning, cancelReq, scanVars, simTime>>
    /\ SimFrame

\* One pass of "while self.is_running" of _simulation_loop up to its await:
\* sleep while paused, day completed or hour completed; break when the clock
\* is not active; otherwise start a scan cycle.
RpIterate ==
    /\ taskPc = "rp_top" /\ ~cancelReq
    /\ IF ~is_running \/ (~tm.is_paused /\ ~tm.day_completed /\ ~tm.is_active)
       THEN /\ taskPc' = "done"
            /\ UNCHANGED <<is_scanning, scanVars, hist, cacheVars>>
       ELSE IF tm.is_paused \/ tm.day_completed \/ tm.hour_completed
       THEN UNCHANGED <<taskPc, is_scanning, scanVars, hist, cacheVars>>
       ELSE /\ SimScanAllEnter("loop")
            /\ taskPc' = "rp_scan"
    /\ UNCHANGED <<storeVars, tm, is_running, cancelReq, stopPc>>
    /\ SimFrame

\* _scan_all returned to the loop: hour_completed = True, broadcast.
RpScanReturn ==
    /\ taskPc = "rp_scan" /\ scanPc["loop"] = "finished" /\ ~cancelReq
    /\ tm' = [tm EXCEPT !.hour_completed = TRUE]
    /\ taskPc' = "rp_top"
    /\ ScanVarsReset("loop")
    /\ hist' = [hist EXCEPT !.scanned = <<tm.day, tm.hour>>]
    /\ UNCHANGED <<storeVars, is_running, is_scanning, cancelReq, stopPc, cache>>
    /\ SimFrame

\* CancelledError reaches the replay task at its await: "except
\* CancelledError: break" ends the task (a cycle it was in is abandoned with
\* the flag as it is).
RpCancelDeliver ==
    /\ cancelReq /\ taskPc \in {"rp_top", "rp_scan"}
    /\ cancelReq' = FALSE
    /\ taskPc' = "done"
    /\ IF taskPc = "rp_scan" THEN ScanVarsReset("loop")
       ELSE UNCHANGED <<scanVars, simTime>>
    /\ hist' = [hist EXCEPT !.cancelled = TRUE]
    /\ UNCHANGED <<storeVars, tm, is_running, is_scanning, stopPc, cache>>
    /\ SimFrame

\* POST /simulation/scan-now -> SimulationScanner.scan_now: only is_active is
\* tested before _scan_all.
ScanNow ==
    /\ tm.is_active
    /\ SimScanAllEnter("req")
    /\ UNCHANGED <<storeVars, tm, is_running, taskPc, cancelReq, stopPc>>
    /\ SimFrame

\* scan_now's _scan_all returned; the closing broadcast.
ScanNowReturn ==
    /\ scanPc["req"] = "finished"
    /\ ScanVarsReset("req")
    /\ UNCHANGED <<storeVars, tm, schedVars, hist, cache>>
    /\ SimFrame

\* POST /simulation/next-hour: advance the clock; at the end of the day pause
\* and run _cleanup_day_end_signals (the end-of-day analysis that follows
\* writes no signal, trade or balance), otherwise let the loop scan again.
NextHour ==
    /\ tm.is_active /\ tm.hour_completed /\ ~tm.day_completed
    /\ tm.hour + HourStep <= MaxHour
    /\ LET a == advance_hour(tm)
       IN  IF a.done
           THEN /\ tm' = [a.tm EXCEPT !.is_paused = TRUE]
                /\ signals' = sim_cleanup_day_end_signals(signals)
           ELSE /\ tm' = [a.tm EXCEPT !.hour_completed = FALSE]
                /\ UNCHANGED signals
    /\ UNCHANGED <<trades, schedVars, scanVars, hist, cacheVars>>
    /\ SimFrame

\* confirm_sim_entry taking the position whatever the balance is.
ConfirmSimEntryUnchecked(id, price, lots, lv) ==
    LET out == confirm_entry(signals, id, price, lots, lv[1], lv[2])
    IN  /\ id \in 1..Len(signals)
        /\ ~out.raised
        /\ signals' = out.signals
        /\ tm' = [tm EXCEPT !.current_balance = @ - price * lots]
        /\ UNCHANGED <<trades, schedVars, scanVars, hist, cacheVars>>
        /\ SimFrame

\* POST /simulation/signals/{id}/confirm-entry: rejected unless the signal is
\* triggered or pending and actual_entry_price * lots is within the balance;
\* the cost is deducted and the row becomes entered.
ConfirmSimEntry(id, price, lots, lv) ==
    LET out == confirm_entry(signals, id, price, lots, lv[1], lv[2])
    IN  /\ id \in 1..Len(signals)
        /\ ~out.raised
        /\ price * lots <= tm.current_balance
        /\ signals' = out.signals
        /\ tm' = [tm EXCEPT !.current_balance = @ - price * lots]
        /\ UNCHANGED <<trades, schedVars, scanVars, hist, cacheVars>>
        /\ SimFrame

\* POST /simulation/signals/{id}/close-position: the trade row, the balance
\* credit of exit_price * lots and the statistics; the row is closed when no
\* lots remain.
CloseSimPosition(id, exit_price, lots) ==
    LET out == close_position(signals, trades, id, exit_price, lots)
        ppl == ProfitPerLot(signals[id].direction, EntryOf(signals[id]), exit_price)
    IN  /\ id \in 1..Len(signals)
        /\ ~out.raised
        /\ Fits(out)
        /\ signals' = out.signals
        /\ trades' = out.trades
        /\ tm' = RecordClose(tm, exit_price, lots, ppl * lots, ppl > 0)
        /\ UNCHANGED <<schedVars, scanVars, hist, cacheVars>>
        /\ SimFrame

\* DELETE /simulation/signals/{id}: rejected for stopped, target_hit and
\* cancelled rows; any other row becomes cancelled.
CancelSimSignal(id) ==
    /\ id \in 1..Len(signals)
    /\ ~cancel_signal(signals, id).raised
    /\ signals' = cancel_signal(signals, id).signals
    /\ UNCHANGED <<trades, tm, schedVars, scanVars, hist, cacheVars>>
    /\ SimFrame

\* POST /simulation/pause: SimulationTimeManager.pause() and
\* SimulationScanner.pause().
PauseSimulation ==
    /\ tm.is_active /\ ~tm.is_paused
    /\ tm' = [tm EXCEPT !.is_paused = TRUE]
    /\ UNCHANGED <<storeVars, schedVars, scanVars, hist, cacheVars>>
    /\ SimFrame

\* POST /simulation/resume, accepted when paused or when the day is completed:
\* SimulationTimeManager.resume() clears is_paused, day_completed and
\* hour_completed; the clock is not touched.
ResumeSimulation ==
    /\ tm.is_active /\ (tm.is_paused \/ tm.day_completed)
    /\ tm' = [tm EXCEPT !.is_paused = FALSE, !.day_completed = FALSE,
                        !.hour_completed = FALSE]
    /\ UNCHANGED <<storeVars, schedVars, scanVars, hist, cacheVars>>
    /\ SimFrame

\* POST /simulation/next-day, accepted when the day is completed: next_day();
\* if the date range is over, simulation_time_manager.stop() and
\* SimulationScanner.stop(); otherwise clear_cache() and resume().  There is
\* no await between next_day() and clear_cache().
NextSimulationDay ==
    /\ tm.is_active /\ tm.day_completed /\ stopPc \in {"idle", "returned"}
    /\ LET n == next_day(tm)
       IN  IF n.complete
           THEN /\ tm' = TmReset
                /\ is_scanning' = FALSE
                /\ is_running' = FALSE
                /\ cancelReq' = (taskPc \notin {"none", "done"})
                /\ stopPc' = IF taskPc = "none" \/ ~StopAwaitsTask
                             THEN "returned" ELSE "waiting"
                /\ UNCHANGED taskPc
           ELSE /\ tm' = n.tm
                /\ UNCHANGED schedVars
    /\ cache' = NoCache
    /\ UNCHANGED <<storeVars, scanVars, hist, simTime>>
    /\ SimFrame

\* POST /simulation/stop: SimulationScanner.stop() cancels the task and
\* awaits it ...
StopReplay ==
    /\ tm.is_active /\ stopPc \in {"idle", "returned"}
    /\ is_running' = FALSE
    /\ cancelReq' = (taskPc \notin {"none", "done"})
    /\ stopPc' = "waiting_tm"
    /\ cache' = NoCache
    /\ UNCHANGED <<storeVars, tm, is_scanning, taskPc, scanVars, hist, simTime>>
    /\ SimFrame

\* ... and once stop() has returned, simulation_time_manager.stop().
ReplayStopReturn ==
    /\ stopPc = "waiting_tm"
    /\ StopAwaitsTask => taskPc \in {"none", "done"}
    /\ stopPc' = "returned"
    /\ tm' = TmReset
    /\ is_scanning' = FALSE
    /\ UNCHANGED <<storeVars, is_running, taskPc, cancelReq, scanVars, hist, cacheVars>>
    /\ SimFrame

\* ------------------------------------------------ live: specification
\* State after construction of the services, with n active watchlist items.
\* atr_multiplier, max_atr_risk, min_atr_risk of calculate_levels in quarters:
\* the defaults 0.25 / 2.5 / 0.5.
DefaultAtrParams == [atr_multiplier |-> 1, max_atr_risk |-> 10, min_atr_risk |-> 2]

\* No strategy method is being followed.
NoCall ==
    [fn |-> "none", direction |-> "long", last_peak |-> None, last_trough |-> None,
     atr |-> None, par |-> DefaultAtrParams,
     high |-> <<>>, low |-> <<>>, n_bars |-> None, returned |-> FALSE,
     levels |-> NoLevels, peaks |-> <<>>, troughs |-> <<>>,
     last |-> [peak |-> None, trough |-> None],
     strategy |-> "none", trend |-> "equal", cross |-> "none", price |-> None,
     precondition_met |-> FALSE, main_condition_met |-> FALSE,
     cached |-> {}, fetched |-> {}, end_time |-> None, data |-> {}, stored |-> {}]

InitWithCall(sched, n, call) ==
    /\ scheduler = sched
    /\ watchlist = n
    /\ tm = TmReset
    /\ signals = <<>>
    /\ trades = <<>>
    /\ is_running = FALSE
    /\ is_scanning = FALSE
    /\ taskPc = "none"
    /\ cancelReq = FALSE
    /\ stopPc = "idle"
    /\ scanPc = [p \in Callers |-> "idle"]
    /\ scanBatch = [p \in Callers |-> 0]
    /\ scanRes = [p \in Callers |-> NoScan]
    /\ scanIdx = [p \in Callers |-> 0]
    /\ hist = BlankHist
    /\ calc = call
    /\ cache = NoCache
    /\ simTime = [p \in Callers |-> None]
    /\ now = [day |-> FirstDay, slot |-> "pre"]
    /\ loopLocals = FreshLocals
    /\ oldTask = NoTask

InitWith(sched, n) == InitWithCall(sched, n, NoCall)

\* The live scheduler with one watched pair: loop task, stop(), scan-now.
InitLive == InitWith("live", 1)

NextLive ==
    \/ LiveStart
    \/ LiveStopCall
    \/ LiveStopReturn
    \/ LiveLoopScan
    \/ \E c \in BOOLEAN : LiveLoopClosed(c)
    \/ LiveCancelDeliver
    \/ LiveCancelledReturn
    \/ TriggerScanNow
    \/ \E p \in Callers : LiveScanLoad(p)
    \/ \E p \in Callers, i \in Items, k \in FailKinds : LiveFetchItem(p, i, k, BlankResult)
    \/ \E p \in Callers, i \in Items, r \in LiveResults : LiveFetchItem(p, i, "ok", r)
    \/ \E p \in Callers : LiveProcessItem(p)
    \/ \E p \in Callers : LiveScanReturn(p)

SpecLive == InitLive /\ [][NextLive]_vars

\* The live loop under the wall clock, from Thursday to Saturday, with start()
\* and stop().
NextDayEnd ==
    \/ LiveStart
    \/ LiveStopCall
    \/ LiveStopReturn
    \/ Tick
    \/ ScanLoop
    \/ LiveCancelDeliver
    \/ LiveCancelledReturn
    \/ LiveScanLoad("loop")
    \/ \E i \in Items, k \in FailKinds : LiveFetchItem("loop", i, k, BlankResult)
    \/ \E i \in Items, pm \in BOOLEAN :
          LiveFetchItem("loop", i, "ok", [BlankResult EXCEPT !.precondition_met = pm])
    \/ LiveProcessItem("loop")
    \/ LiveScanReturn("loop")

SpecDayEnd == InitLive /\ [][NextDayEnd]_vars

\* One scan-now cycle after another over NumItems watched pairs in batches.
InitFetch == InitWith("live", NumItems)

NextFetch ==
    \/ TriggerScanNow
    \/ LiveScanLoad("req")
    \/ \E i \in Items, k \in FailKinds : LiveFetchItem("req", i, k, BlankResult)
    \/ \E i \in Items, r \in LiveResults : LiveFetchItem("req", i, "ok", r)
    \/ LiveProcessItem("req")
    \/ LiveScanReturn("req")

SpecFetch == InitFetch /\ [][NextFetch]_vars

\* The live loop scanning the same watchlist in batches, with start() and
\* stop(): a stop can reach a cycle during a fetch or between two results.
NextBatchStop ==
    \/ LiveStart
    \/ LiveStopCall
    \/ LiveStopReturn
    \/ LiveLoopScan
    \/ \E c \in BOOLEAN : LiveLoopClosed(c)
    \/ LiveCancelDeliver
    \/ LiveCancelledReturn
    \/ LiveScanLoad("loop")
    \/ \E i \in Items, k \in FailKinds : LiveFetchItem("loop", i, k, BlankResult)
    \/ \E i \in Items, pm \in BOOLEAN :
          LiveFetchItem("loop", i, "ok", [BlankResult EXCEPT !.precondition_met = pm])
    \/ LiveProcessItem("loop")
    \/ LiveScanReturn("loop")

SpecBatchStop == InitFetch /\ [][NextBatchStop]_vars

\* The Signal Store of one watched pair under the endpoints, scan-now cycles,
\* single-ticker scans and the loop's day-end cleanup.
InitStore == InitWith("live", 1)

\* Results the store specification scans with: the price below the entry level
\* (nothing happens to a triggered row) or at the stop level.
StoreResults == { r \in LiveResults : r.current_price < LongLevels.entry_price }

NextStore ==
    \/ LiveStart
    \/ \E c \in BOOLEAN : LiveLoopClosed(c)
    \/ TriggerScanNow
    \/ LiveScanLoad("req")
    \/ \E i \in Items, k \in FailKinds : LiveFetchItem("req", i, k, BlankResult)
    \/ \E i \in Items, r \in StoreResults : LiveFetchItem("req", i, "ok", r)
    \/ LiveProcessItem("req")
    \/ LiveScanReturn("req")
    \/ \E i \in 1..watchlist, r \in StoreResults : LiveScanTicker(i, r)
    \/ \E id \in 1..MaxSignals, lv \in ConfirmLevels :
          LiveConfirmEntry(id, LongLevels.entry_price, MaxLots, lv)
    \/ \E id \in 1..MaxSignals, lots \in 1..MaxLots :
          LiveClosePosition(id, LongLevels.take_profit, lots)
    \/ \E id \in 1..MaxSignals : LiveCancelSignal(id)

SpecStore == InitStore /\ [][NextStore]_vars

\* ------------------------------------------------ sim: specifications
LowBalance == 2   \* an initial balance below a long entry's cost

\* Date ranges a start request carries: two trading days followed by a
\* weekend; a range that starts on a weekend day.
DateRanges == { <<FirstDay, FirstDay + 1>>, <<LastDay, LastDay>> }

InitialBalances == { LowBalance, DefaultBalance }

Levels(d) == IF d = "long" THEN LongLevels ELSE ShortLevels

\* A result with the main condition met, the levels of its direction, and the
\* last candle <<close, low, high>>.
MainResult(d, candle) ==
    [entry_price |-> Levels(d).entry_price, stop_loss |-> Levels(d).stop_loss,
     take_profit |-> Levels(d).take_profit,
     precondition_met |-> TRUE, main_condition_met |-> TRUE, direction |-> d,
     current_price |-> candle[1],
     last_candle_high |-> candle[3], last_candle_low |-> candle[2]]

Min(a, b) == IF a <= b THEN a ELSE b
Max(a, b) == IF a >= b THEN a ELSE b

\* Candles of the backtest: short of the entry level; at the entry level with
\* a narrow range, with a range that holds both stop and target, with a range
\* that holds only the target.
Candles(d) ==
    LET l == Levels(d)
        e == l.entry_price
        before == IF d = "long" THEN e - 1 ELSE e + 1
    IN  { <<before, before, before>>,
          <<e, e, e>>,
          <<e, Min(l.stop_loss, l.take_profit), Max(l.stop_loss, l.take_profit)>>,
          <<e, Min(e, l.take_profit), Max(e, l.take_profit)>> }

SimResults ==
    { MainResult(d, c) : d \in {"long"}, c \in Candles("long") }
    \cup { MainResult(d, c) : d \in {"short"}, c \in Candles("short") }
    \cup { [BlankResult EXCEPT !.current_price = LongLevels.entry_price - 1,
                               !.last_candle_low = LongLevels.entry_price - 1,
                               !.last_candle_high = LongLevels.entry_price - 1,
                               !.precondition_met = pm] : pm \in BOOLEAN }

InitSim == InitWith("sim", 1)

\* The automated backtest: start request, loop task, stop request.
NextBacktest ==
    \/ \E rg \in DateRanges, b \in InitialBalances : StartBacktest(rg[1], rg[2], b)
    \/ \E f \in BOOLEAN : BtIterate(f)
    \/ \E i \in Items, k \in FailKinds : SimFetchItem("loop", i, k, BlankResult)
    \/ \E i \in Items, r \in SimResults : SimFetchItem("loop", i, "ok", r)
    \/ SimProcessItem("loop")
    \/ BtTradeAdvance
    \/ BtNextDay
    \/ BtFinish
    \/ BtCancelDeliver
    \/ StopBacktest
    \/ SimStopReturn

SpecBacktest == InitSim /\ [][NextBacktest]_vars

\* The steps of the backtest task.  The event loop runs every task that is
\* ready: a step of the task is taken once it stays enabled (whether a pass
\* raises is not up to the scheduler).
BtLoopStep ==
    \/ \E f \in BOOLEAN : BtIterate(f)
    \/ \E i \in Items, k \in FailKinds : SimFetchItem("loop", i, k, BlankResult)
    \/ \E i \in Items, r \in SimResults : SimFetchItem("loop", i, "ok", r)
    \/ SimProcessItem("loop")
    \/ BtTradeAdvance
    \/ BtNextDay
    \/ BtFinish
    \/ BtCancelDeliver

SpecBacktestFair == InitSim /\ [][NextBacktest]_vars /\ WF_vars(BtLoopStep)

\* The backtest with start requests that arrive at any time, also while a stop
\* request awaits the task it cancelled.
NextTasks ==
    \/ StartBacktest(FirstDay, FirstDay, DefaultBalance)
    \/ StartBacktestDuringStop(FirstDay, FirstDay, DefaultBalance)
    \/ BtIterate(FALSE)
    \/ \E i \in Items, pm \in {TRUE} :
          SimFetchItem("loop", i, "ok", [BlankResult EXCEPT !.precondition_met = pm])
    \/ SimProcessItem("loop")
    \/ BtTradeAdvance
    \/ BtNextDay
    \/ BtFinish
    \/ BtCancelDeliver
    \/ StopBacktest
    \/ SimStopReturn
    \/ OldTaskStep

SpecTasks == InitSim /\ [][NextTasks]_vars

\* The replay: start request, loop task, scan-now, next-hour, stop request.
ReplayResults == { r \in SimResults : r.direction = "long" }

NextReplay ==
    \/ StartReplay(FirstDay, FirstDay, DefaultBalance)
    \/ RpIterate
    \/ RpScanReturn
    \/ RpCancelDeliver
    \/ ScanNow
    \/ ScanNowReturn
    \/ NextHour
    \/ \E p \in Callers, i \in Items, k \in FailKinds : SimFetchItem(p, i, k, BlankResult)
    \/ \E p \in Callers, i \in Items, r \in ReplayResults : SimFetchItem(p, i, "ok", r)
    \/ \E p \in Callers : SimProcessItem(p)
    \/ StopReplay
    \/ ReplayStopReturn

SpecReplay == InitSim /\ [][NextReplay]_vars

\* Manual-step replay driven hour by hour, with pause and resume; the only
\* scans are the loop's.
NextManual ==
    \/ StartReplay(FirstDay, FirstDay, DefaultBalance)
    \/ RpIterate
    \/ RpScanReturn
    \/ RpCancelDeliver
    \/ NextHour
    \/ NextSimulationDay
    \/ PauseSimulation
    \/ ResumeSimulation
    \/ \E i \in Items, k \in FailKinds : SimFetchItem("loop", i, k, BlankResult)
    \/ \E i \in Items, pm \in BOOLEAN :
          SimFetchItem("loop", i, "ok", [BlankResult EXCEPT !.precondition_met = pm])
    \/ SimProcessItem("loop")
    \/ StopReplay
    \/ ReplayStopReturn

SpecManual == InitSim /\ [][NextManual]_vars

\* A replay session, manual-step or backtest, with the position endpoints.
NextSession ==
    \/ \E b \in InitialBalances : StartReplay(FirstDay, FirstDay, b)
    \/ RpIterate
    \/ RpScanReturn
    \/ NextHour
    \/ \E b \in InitialBalances : StartBacktest(FirstDay, FirstDay, b)
    \/ BtIterate(FALSE)
    \/ BtTradeAdvance
    \/ BtNextDay
    \/ BtFinish
    \/ \E i \in Items, cp \in {LongLevels.entry_price} :
          SimFetchItem("loop", i, "ok", MainResult("long", <<cp, cp, cp>>))
    \/ SimProcessItem("loop")
    \/ \E id \in 1..MaxSignals, lots \in 1..MaxLots :
          ConfirmSimEntry(id, LongLevels.entry_price, lots, <<None, None>>)
    \/ \E id \in 1..MaxSignals, lots \in 1..MaxLots,
          px \in {LongLevels.stop_loss, LongLevels.take_profit} :
          CloseSimPosition(id, px, lots)
    \/ \E id \in 1..MaxSignals : CancelSimSignal(id)

SpecSession == InitSim /\ [][NextSession]_vars

\* Both schedulers, each with its loop task and its stop requests.
InitStop == InitLive \/ InitSim

NextStop ==
    \/ NextLive
    \/ NextBacktest
    \/ \E i \in Items, cp \in {LongLevels.take_profit} :
          SimFetchItem("loop", i, "ok",
                       [BlankResult EXCEPT !.current_price = cp,
                                           !.last_candle_low = cp,
                                           !.last_candle_high = cp])
    \/ StartReplay(FirstDay, FirstDay, DefaultBalance)
    \/ RpIterate
    \/ RpScanReturn
    \/ RpCancelDeliver
    \/ NextHour
    \/ StopReplay
    \/ ReplayStopReturn

SpecStop == InitStop /\ [][NextStop]_vars

\* The data cache under the replay (loop task, next-hour, next-day, scan-now,
\* stop) and the backtest loop, over two trading days, with scans that create
\* at most a pending row.
NextCache ==
    \/ StartReplay(FirstDay, FirstDay + 1, DefaultBalance)
    \/ RpIterate
    \/ RpScanReturn
    \/ RpCancelDeliver
    \/ ScanNow
    \/ ScanNowReturn
    \/ NextHour
    \/ NextSimulationDay
    \/ StopReplay
    \/ ReplayStopReturn
    \/ \E p \in Callers, i \in Items, k \in FailKinds : SimFetchItem(p, i, k, BlankResult)
    \/ \E p \in Callers, i \in Items, pm \in BOOLEAN :
          SimFetchItem(p, i, "ok", [BlankResult EXCEPT !.precondition_met = pm])
    \/ \E p \in Callers : SimProcessItem(p)
    \/ StartBacktest(FirstDay, FirstDay + 1, DefaultBalance)
    \/ \E f \in BOOLEAN : BtIterate(f)
    \/ BtTradeAdvance
    \/ BtNextDay
    \/ BtFinish
    \/ BtCancelDeliver
    \/ StopBacktest
    \/ SimStopReturn

SpecCache == InitSim /\ [][NextCache]_vars

\* Both loop tasks under failing cycles.  The steps of a loop task; the
\* results scanned include one with the main condition and no levels:
\* processing it raises in the live scanner, and in the simulation it creates
\* a row that makes the next cycle raise.  A pass of the backtest loop may
\* also fail at its top.
LoopStep ==
    \/ LiveLoopScan
    \/ LiveScanLoad("loop")
    \/ \E i \in Items, k \in FailKinds : LiveFetchItem("loop", i, k, BlankResult)
    \/ \E i \in Items, r \in StoreResults : LiveFetchItem("loop", i, "ok", r)
    \/ LiveProcessItem("loop")
    \/ LiveScanReturn("loop")
    \/ LiveCancelDeliver
    \/ LiveCancelledReturn
    \/ \E f \in BOOLEAN : BtIterate(f)
    \/ \E i \in Items, k \in FailKinds : SimFetchItem("loop", i, k, BlankResult)
    \/ \E i \in Items, r \in StoreResults : SimFetchItem("loop", i, "ok", r)
    \/ SimProcessItem("loop")
    \/ BtTradeAdvance
    \/ BtNextDay
    \/ BtFinish
    \/ BtCancelDeliver

NextLoops ==
    \/ LoopStep
    \/ LiveStart
    \/ LiveStopCall
    \/ LiveStopReturn
    \/ \E c \in BOOLEAN : LiveLoopClosed(c)
    \/ StartBacktest(FirstDay, FirstDay + 1, DefaultBalance)
    \/ StopBacktest
    \/ SimStopReturn

\* The event loop runs a task that is ready, a sleep of the loop ends, and the
\* market opens on the next trading day: a step of the loop task that stays
\* possible is taken.
SpecLoopsFair == InitStop /\ [][NextLoops]_vars /\ WF_vars(LoopStep)

\* --------------------------------------- strategies/base.py: BaseStrategy
\* Prices and ATR are counted in ticks of half the last decimal place that
\* calculate_levels keeps; the method's own arithmetic is exact in quarter
\* ticks, because its factors (0.25, 0.5, 2.5) are multiples of a quarter.
MaxTick == 6           \* last_peak, last_trough range over 0..MaxTick ticks
MaxAtr == 4            \* the current ATR ranges over 1..MaxAtr ticks
Quarter == 4           \* quarter ticks in a tick
RoundStep == 8         \* quarter ticks in 10^-4, the step of round(x, 4)
risk_reward_ratio == 2

\* Python's round(x, 4): to the nearest step, a tie to the even neighbour.
round4(x) ==
    LET q == x \div RoundStep
        r == x % RoundStep
    IN  IF 2 * r < RoundStep THEN q * RoundStep
        ELSE IF 2 * r > RoundStep THEN (q + 1) * RoundStep
        ELSE IF q % 2 = 0 THEN q * RoundStep ELSE (q + 1) * RoundStep

\* BaseStrategy.calculate_levels; current_atr is atr.iloc[-1].  Arguments in
\* ticks, par in quarters, the returned levels in quarter ticks.
calculate_levels(direction, last_peak, last_trough, current_atr, par) ==
    LET buffer == current_atr * par.atr_multiplier
        max_stop_distance == current_atr * par.max_atr_risk
        min_stop_distance == current_atr * par.min_atr_risk
        long_entry == last_peak * Quarter + buffer
        long_stop == Max(last_trough * Quarter - buffer, long_entry - max_stop_distance)
        long_close == long_entry - long_stop < min_stop_distance
        long_risk == IF long_close THEN min_stop_distance ELSE long_entry - long_stop
        short_entry == last_trough * Quarter - buffer
        short_stop == Min(last_peak * Quarter + buffer, short_entry + max_stop_distance)
        short_close == short_stop - short_entry < min_stop_distance
        short_risk == IF short_close THEN min_stop_distance ELSE short_stop - short_entry
    IN  IF direction = "long"
        THEN [entry_price |-> round4(long_entry),
              stop_loss |-> round4(IF long_close THEN long_entry - min_stop_distance
                                   ELSE long_stop),
              take_profit |-> round4(long_entry + long_risk * risk_reward_ratio)]
        ELSE [entry_price |-> round4(short_entry),
              stop_loss |-> round4(IF short_close THEN short_entry + min_stop_distance
                                   ELSE short_stop),
              take_profit |-> round4(short_entry - short_risk * risk_reward_ratio)]

\* A call of calculate_levels returns.
CalculateLevels ==
    /\ calc.fn = "calculate_levels" /\ ~calc.returned
    /\ calc' = [calc EXCEPT
                  !.returned = TRUE,
                  !.levels = calculate_levels(calc.direction, calc.last_peak,
                                              calc.last_trough, calc.atr, calc.par)]
    /\ scheduler = "strategy"
    /\ UNCHANGED <<scheduler, watchlist, tm, storeVars, schedVars, scanVars, hist, cacheVars,
                   wallVars>>

\* Strategy.evaluate of the two registered strategies, on data long enough for
\* the indicators.  trend: current price against EMA200 ("above", "below",
\* "equal"); cross: the MACD crossover of ema_macd ("bullish", "bearish",
\* "none"), for resistance_stoch_rsi "bullish" stands for the StochRSI cross
\* above the oversold level; price: the last close; last_peak / last_trough:
\* what get_last_peak_trough returned (None: no pivot).  Returns the fields of
\* the StrategyResult, levels in quarter ticks.
evaluate(strategy, trend, cross, price, last_peak, last_trough, current_atr, par) ==
    LET blank == [precondition_met |-> FALSE, main_condition_met |-> FALSE,
                  direction |-> "long", levels |-> NoLevels]
        pivots == last_peak # None /\ last_trough # None
        macd(d) == [precondition_met |-> TRUE,
                    main_condition_met |-> cross = (IF d = "long" THEN "bullish" ELSE "bearish"),
                    direction |-> d,
                    levels |-> IF cross = (IF d = "long" THEN "bullish" ELSE "bearish") /\ pivots
                               THEN calculate_levels(d, last_peak, last_trough, current_atr, par)
                               ELSE NoLevels]
        entry == price * Quarter
        natural == last_trough * Quarter - current_atr * par.atr_multiplier
        stop == IF entry - natural < current_atr * DefaultAtrParams.min_atr_risk
                THEN entry - current_atr * DefaultAtrParams.min_atr_risk
                ELSE IF entry - natural > current_atr * DefaultAtrParams.max_atr_risk
                THEN entry - current_atr * DefaultAtrParams.max_atr_risk
                ELSE natural
        breakout == [precondition_met |-> TRUE, main_condition_met |-> TRUE,
                     direction |-> "long",
                     levels |-> [entry_price |-> round4(entry), stop_loss |-> round4(stop),
                                 take_profit |-> round4(entry + (entry - stop) * risk_reward_ratio)]]
    IN  IF strategy = "ema_macd"
        THEN IF trend = "above" THEN macd("long")
             ELSE IF trend = "below" THEN macd("short")
             ELSE blank
        ELSE IF trend # "above" THEN blank
             ELSE IF ~pivots THEN [blank EXCEPT !.precondition_met = TRUE]
             ELSE IF price > last_peak /\ cross = "bullish" THEN breakout
             ELSE [blank EXCEPT !.precondition_met = TRUE]

\* A call of evaluate returns.
Evaluate ==
    /\ calc.fn = "evaluate" /\ ~calc.returned
    /\ \E r \in { evaluate(calc.strategy, calc.trend, calc.cross, calc.price,
                            calc.last_peak, calc.last_trough, calc.atr, calc.par) } :
          calc' = [calc EXCEPT !.returned = TRUE, !.direction = r.direction,
                               !.levels = r.levels,
                               !.precondition_met = r.precondition_met,
                               !.main_condition_met = r.main_condition_met]
    /\ scheduler = "strategy"
    /\ UNCHANGED <<scheduler, watchlist, tm, storeVars, schedVars, scanVars, hist, cacheVars,
                   wallVars>>

\* Series positions count from 0, as iloc does.
iloc(series, i) == series[i + 1]

\* find_peaks_troughs with the window one bar short on the right.
find_peaks_troughs_short_window(high, low, n_bars) ==
    LET range == n_bars..(Len(high) - n_bars - 1)
        window(series, i) == { iloc(series, j) : j \in (i - n_bars)..(i + n_bars - 1) }
        max(S) == CHOOSE x \in S : \A y \in S : y <= x
        min(S) == CHOOSE x \in S : \A y \in S : x <= y
        peak(i) == i \in range /\ (n_bars = 0 \/ iloc(high, i) = max(window(high, i)))
        trough(i) == i \in range /\ (n_bars = 0 \/ iloc(low, i) = min(window(low, i)))
    IN  [peaks |-> [k \in 1..Len(high) |-> IF peak(k - 1) THEN <<high[k]>> ELSE <<>>],
         troughs |-> [k \in 1..Len(low) |-> IF trough(k - 1) THEN <<low[k]>> ELSE <<>>]]

\* BaseStrategy.find_peaks_troughs: for i in range(n_bars, len - n_bars) the
\* bar is compared with the max / min of series.iloc[i - n_bars : i + n_bars + 1].
\* The returned series are NaN (the empty tuple) except at the pivots.
find_peaks_troughs(high, low, n_bars) ==
    LET range == n_bars..(Len(high) - n_bars - 1)
        window(series, i) == { iloc(series, j) : j \in (i - n_bars)..(i + n_bars) }
        max(S) == CHOOSE x \in S : \A y \in S : y <= x
        min(S) == CHOOSE x \in S : \A y \in S : x <= y
        peak(i) == i \in range /\ iloc(high, i) = max(window(high, i))
        trough(i) == i \in range /\ iloc(low, i) = min(window(low, i))
    IN  [peaks |-> [k \in 1..Len(high) |-> IF peak(k - 1) THEN <<high[k]>> ELSE <<>>],
         troughs |-> [k \in 1..Len(low) |-> IF trough(k - 1) THEN <<low[k]>> ELSE <<>>]]

\* series.dropna().iloc[-1], None for an empty result
LastValue(series) ==
    LET kept == SelectSeq(series, LAMBDA x : x # <<>>)
    IN  IF kept = <<>> THEN None ELSE kept[Len(kept)][1]

\* BaseStrategy.get_last_peak_trough
get_last_peak_trough(high, low, n_bars) ==
    LET found == find_peaks_troughs(high, low, n_bars)
    IN  [peak |-> LastValue(found.peaks), trough |-> LastValue(found.troughs)]

\* A call of get_last_peak_trough returns (the two series of its
\* find_peaks_troughs call are kept beside the result).
GetLastPeakTrough ==
    /\ calc.fn = "get_last_peak_trough" /\ ~calc.returned
    /\ calc' = [calc EXCEPT
                  !.returned = TRUE,
                  !.peaks = find_peaks_troughs(calc.high, calc.low, calc.n_bars).peaks,
                  !.troughs = find_peaks_troughs(calc.high, calc.low, calc.n_bars).troughs,
                  !.last = get_last_peak_trough(calc.high, calc.low, calc.n_bars)]
    /\ scheduler = "strategy"
    /\ UNCHANGED <<scheduler, watchlist, tm, storeVars, schedVars, scanVars, hist, cacheVars,
                   wallVars>>

\* The calls followed: calculate_levels for both directions, every pivot pair
\* and ATR in range, and get_last_peak_trough for every series of up to MaxLen
\* bars (Low <= High in each bar) and every window up to MaxNBars.
MaxLen == 5
MaxBar == 2
MaxNBars == 2

\* calculate_levels is called with the default factors and with equal floor
\* and cap (1.5 / 1.5).
InitStrategy ==
    \/ \E st \in {"ema_macd", "resistance_stoch_rsi"}, tr \in {"above", "below", "equal"},
          cr \in {"bullish", "bearish", "none"}, pr \in {1, MaxTick},
          p \in {None, MaxTick - 1}, t \in {None, 1} :
          InitWithCall("strategy", 0,
                       [NoCall EXCEPT !.fn = "evaluate", !.strategy = st, !.trend = tr,
                                      !.cross = cr, !.price = pr, !.last_peak = p,
                                      !.last_trough = t, !.atr = MaxAtr])
    \/ \E d \in {"long", "short"}, p \in 0..MaxTick, t \in 0..MaxTick, a \in 1..MaxAtr,
          par \in { DefaultAtrParams,
                    [atr_multiplier |-> 1, max_atr_risk |-> 6, min_atr_risk |-> 6] } :
          InitWithCall("strategy", 0,
                       [NoCall EXCEPT !.fn = "calculate_levels", !.direction = d,
                                      !.last_peak = p, !.last_trough = t, !.atr = a,
                                      !.par = par])
    \/ \E k \in 0..MaxLen, n \in 0..MaxNBars :
          \E data \in [1..k -> { b \in (1..MaxBar) \X (1..MaxBar) : b[1] <= b[2] }] :
             InitWithCall("strategy", 0,
                          [NoCall EXCEPT !.fn = "get_last_peak_trough",
                                         !.low = [x \in 1..k |-> data[x][1]],
                                         !.high = [x \in 1..k |-> data[x][2]],
                                         !.n_bars = n])

NextStrategy ==
    \/ CalculateLevels
    \/ GetLastPeakTrough
    \/ Evaluate

SpecStrategy == InitStrategy /\ [][NextStrategy]_vars

\* ------------------------------------- sim: _get_historical_data
\* A candle frame is the set of its index values (candle times 1..MaxTime).
MaxTime == 4
\* "end=end_time + timedelta(days=1)": how far past end_time a fetch reaches.
DayAhead == 1

\* _get_historical_data returning a cache hit as it is stored.
get_historical_data_unfiltered(cached, fetched, end_time) ==
    IF cached # {} /\ { c \in cached : c <= end_time } # {}
    THEN [data |-> cached, stored |-> cached]
    ELSE IF fetched # {}
    THEN [data |-> { c \in fetched : c <= end_time }, stored |-> fetched]
    ELSE [data |-> {}, stored |-> cached]

\* SimulationScanner._get_historical_data: cached - the frame under the cache
\* key ({}: no entry or an empty frame); fetched - the frame the download
\* returns ({}: nothing, an exception or the timeout).  The returned data and
\* the frame under the key afterwards.
get_historical_data(cached, fetched, end_time) ==
    LET filtered == { c \in cached : c <= end_time }
    IN  IF cached # {} /\ filtered # {}
        THEN [data |-> filtered, stored |-> cached]
        ELSE IF fetched # {}
        THEN [data |-> { c \in fetched : c <= end_time }, stored |-> fetched]
        ELSE [data |-> {}, stored |-> cached]

\* _scan_ticker_async, lines 949-964: the call with end_time = sim_time; the
\* returned frame is what strategy.evaluate receives.
GetHistoricalData ==
    /\ calc.fn = "_get_historical_data" /\ ~calc.returned
    /\ LET out == get_historical_data(calc.cached, calc.fetched, calc.end_time)
       IN  calc' = [calc EXCEPT !.returned = TRUE, !.data = out.data,
                                !.stored = out.stored]
    /\ scheduler = "strategy"
    /\ UNCHANGED <<scheduler, watchlist, tm, storeVars, schedVars, scanVars, hist, cacheVars,
                   wallVars>>

\* The cache holds any frame an earlier call stored (fetched for any earlier
\* or later end_time); a download reaches at most DayAhead past end_time.
InitHistory ==
    \E end_time \in 1..MaxTime, cached \in SUBSET (1..MaxTime),
       fetched \in SUBSET (1..MaxTime) :
       /\ \A c \in fetched : c <= end_time + DayAhead
       /\ InitWithCall("strategy", 0,
                       [NoCall EXCEPT !.fn = "_get_historical_data", !.cached = cached,
                                      !.fetched = fetched, !.end_time = end_time])

SpecHistory == InitHistory /\ [][GetHistoricalData]_vars

\* ------------------------------------------------ properties: backtest
RECURSIVE SumProfit(_)
SumProfit(trs) == IF trs = <<>> THEN 0 ELSE Head(trs).profit_tl + SumProfit(Tail(trs))

\* The run ended by itself (the clock passed end_date), not by a stop request.
RunCompleted == taskPc = "done" /\ tm.is_active

\* C3: backtest balance conservation - when a run has ended, current_balance
\* equals initial_balance plus the sum of profit_tl over the trade rows.
C3_BalanceConservation ==
    RunCompleted => tm.current_balance = tm.initial_balance + SumProfit(trades)

\* C4: whenever next_day() has returned, no row is pending, triggered or
\* entered, and no row was force-closed more than once.
C4_NoOpenSignalAfterNextDay ==
    hist.next_day =>
        /\ \A id \in 1..Len(signals) : signals[id].status \notin Active
        /\ \A id \in 1..Len(signals) :
              Cardinality({ k \in 1..Len(trades) : trades[k].signal_id = id }) <= 1

\* C8: stop-loss priority - an entered row whose stop and target both lay
\* within the last candle's range carries the stop alert until the auto-trade
\* step, and then is stopped (never target_hit) with a trade row whose
\* exit_price is its stop_loss.
C8_StopLossPriority ==
    \A id \in hist.both :
        \/ signals[id].status = "entered" /\ signals[id].alert = "sl_hit"
        \/ /\ signals[id].status = "stopped"
           /\ \E k \in 1..Len(trades) :
                 /\ trades[k].signal_id = id
                 /\ trades[k].exit_price = signals[id].stop_loss
                 /\ trades[k].reason = "stopped"

\* A row was stopped by the auto-trade step after such a candle.
C8_Witness ==
    \E id \in hist.both : signals[id].status = "stopped" /\ Len(trades) > 0

BtPcs == {"bt_top", "bt_scan", "bt_eod", "bt_post"}

\* C10: a started backtest loop terminates, with the summary statistics read
\* and is_running false; a run that ended on its own has moved the clock past
\* end_date and its summary is the time manager's statistics.
C10_BacktestTerminates ==
    /\ (taskPc \in BtPcs) ~> (taskPc = "done" /\ ~is_running /\ hist.finalized)
    /\ [](RunCompleted => /\ tm.day > tm.end_date
                          /\ ~is_running
                          /\ hist.summary = get_balance_stats(tm))

\* A run over two trading days ended on its own with trades recorded.
C10_Witness ==
    RunCompleted /\ tm.end_date = FirstDay + 1 /\ tm.total_trades > 0

\* ------------------------------------------------ properties: replay
\* Callers with a simulation scan cycle in flight (flag set, results being
\* fetched or applied).
SimInFlight == { p \in Callers : scanPc[p] \in {"fetch", "process"} }

\* C7: replay single-flight - scan cycles of the replay scheduler never
\* overlap: a scan_now arriving during the loop's cycle is dropped.
C7_ReplaySingleFlight == scheduler = "sim" => Cardinality(SimInFlight) <= 1

\* ------------------------------------------------ properties: stop()
\* C9: stop() of either scheduler returns only after the cancelled loop task
\* has finished: from then on (until a new start) the task is over and has no
\* scan cycle, so it scans and writes nothing more.
C9_StopAwaitsTask ==
    stopPc = "returned" => (taskPc \in {"none", "done"} /\ scanPc["loop"] = "idle")

\* stop() has returned after the running task it cancelled has finished.
C9_Witness ==
    stopPc = "returned" /\ taskPc = "done" /\ hist.cancelled

\* ------------------------------------------------ properties: Signal Store
\* C1: for every (ticker, strategy) pair the Signal Store holds at most one
\* row whose status is pending, triggered or entered.
C1_SingleActivePerPair ==
    \A i \in Items : Cardinality(ActiveIds(signals, i)) <= 1

\* C2: lifecycle monotonicity - a row whose status is terminal (stopped,
\* target_hit, cancelled, closed) never changes its status again.
C2_TerminalIsFinal ==
    [][\A id \in 1..Len(signals) :
          (signals[id].status \in Terminal /\ id <= Len(signals'))
             => signals'[id].status = signals[id].status]_vars

\* C11: confirmEntry moves only a triggered row to entered; on any other row
\* it is rejected and changes nothing.  (In the live store a row becomes
\* entered through confirmEntry alone.)
C11_ConfirmOnlyTriggered ==
    [][\A id \in 1..Len(signals) :
          (id <= Len(signals') /\ signals[id].status # "triggered"
              /\ signals'[id].status = "entered")
             => signals'[id] = signals[id]]_vars

\* C12: closePosition on an entered row with 0 < lots <= remaining_lots takes
\* exactly lots off remaining_lots, appends one trade row, and leaves the row
\* entered while lots remain and closed exactly when none remain; on a row that
\* is not entered, or with lots <= 0 or lots > remaining_lots, it is rejected and
\* neither the signals nor the trade history change.
C12_PartialExit ==
    \A id \in 1..Len(signals), lots \in 0..(MaxLots + 1), price \in Prices :
        LET s == signals[id]
            out == close_position(signals, trades, id, price, lots)
        IN  IF s.status = "entered" /\ 0 < lots /\ lots <= s.remaining_lots
            THEN /\ ~out.raised
                 /\ out.signals[id].remaining_lots = s.remaining_lots - lots
                 /\ out.signals[id].status =
                        IF s.remaining_lots - lots = 0 THEN "closed" ELSE "entered"
                 /\ \A j \in 1..Len(signals) : j # id => out.signals[j] = signals[j]
                 /\ Len(out.trades) = Len(trades) + 1
                 /\ SubSeq(out.trades, 1, Len(trades)) = trades
                 /\ out.trades[Len(out.trades)].signal_id = id
                 /\ out.trades[Len(out.trades)].lots = lots
            ELSE /\ out.raised
                 /\ out.signals = signals
                 /\ out.trades = trades

\* a partial exit has happened: the row is still entered with fewer lots than
\* were bought, and its sale is in the trade history
C12_Witness ==
    \E id \in 1..Len(signals) :
        /\ signals[id].status = "entered"
        /\ 0 < signals[id].remaining_lots
        /\ signals[id].remaining_lots < signals[id].lots
        /\ \E t \in 1..Len(trades) :
              trades[t].signal_id = id /\ trades[t].reason = "manual"

\* Lots of row id sold according to the trade history.
RECURSIVE SoldLots(_, _)
SoldLots(trs, id) ==
    IF trs = <<>> THEN 0
    ELSE (IF Head(trs).signal_id = id THEN Head(trs).lots ELSE 0) + SoldLots(Tail(trs), id)

\* The step begins a new session: start_backtest clears both tables.
NewSession == signals' = <<>> /\ trades' = <<>> /\ taskPc' = "bt_top" /\ taskPc # "bt_top"

\* Rows that an exit of this step was made from.
ExitedRows ==
    { id \in 1..Len(signals') :
        /\ signals'[id].entered_at
        /\ signals'[id].remaining_lots <
              (IF id <= Len(signals) /\ signals[id].entered_at
               THEN signals[id].remaining_lots ELSE signals'[id].lots) }

AutoEntryCandidate(s) == s.status = "triggered" /\ s.entry_reached /\ s.entry_price # None

\* Cost of the candidates before id that were entered in this call.
RECURSIVE SpentBefore(_, _, _)
SpentBefore(before, after, id) ==
    IF id <= 1 THEN 0
    ELSE SpentBefore(before, after, id - 1)
         + (IF AutoEntryCandidate(before[id - 1]) /\ after[id - 1].status = "entered"
            THEN before[id - 1].entry_price ELSE 0)

\* C14: in a backtest cycle a triggered row with entry_reached whose cost
\* exceeds the balance at its turn is skipped - it stays triggered with
\* entry_reached, nothing is charged for it and no exception ends the call -
\* and a row whose cost the balance covers is entered (so a skipped row is
\* taken by the first later cycle that finds enough balance).
C14_UnaffordableEntrySkipped ==
    LET ex == auto_exit(signals, trades, tm, 1)
        at == backtest_auto_trade(signals, trades, tm)
    IN  ~ex.raised =>
          /\ ~at.raised
          /\ at.tm.current_balance
                = ex.tm.current_balance - SpentBefore(ex.signals, at.signals, Len(signals) + 1)
          /\ \A id \in 1..Len(signals) :
                AutoEntryCandidate(ex.signals[id]) =>
                   LET bal == ex.tm.current_balance - SpentBefore(ex.signals, at.signals, id)
                   IN  IF ex.signals[id].entry_price > bal
                       THEN at.signals[id] = ex.signals[id]
                       ELSE /\ at.signals[id].status = "entered"
                            /\ at.signals[id].remaining_lots = 1

\* the auto trade of this cycle has run and left a row triggered with
\* entry_reached because the balance does not cover its entry price
C14_Witness ==
    /\ taskPc = "bt_top"
    /\ \E id \in 1..Len(signals) :
          /\ AutoEntryCandidate(signals[id])
          /\ signals[id].entry_price > tm.current_balance

\* C15: when a live scan brings an entered row a current price that crosses its
\* stop_loss or its take_profit, the step records a trade row and moves the row
\* to stopped / target_hit.
C15_LiveExitOnCross ==
    [][\A id \in 1..Len(signals) :
          (/\ signals[id].status = "entered"
           /\ id <= Len(signals')
           /\ signals[id].entry_price # None
           /\ signals[id].stop_loss # None /\ signals[id].take_profit # None
           /\ signals'[id].current_price # signals[id].current_price
           /\ \/ CrossesStop(signals[id], signals'[id].current_price)
              \/ CrossesTarget(signals[id], signals'[id].current_price))
          => /\ signals'[id].status \in {"stopped", "target_hit"}
             /\ Len(trades') = Len(trades) + 1
             /\ trades'[Len(trades')].signal_id = id]_vars

\* The virtual clock of the running session moves forward in this step.
ClockAdvances ==
    /\ tm.day # None /\ tm'.day # None
    /\ tm'.day > tm.day \/ (tm'.day = tm.day /\ tm'.hour > tm.hour)

\* exit_price * lots over the rows from position n on.
RECURSIVE Credited(_, _)
Credited(trs, n) ==
    IF n > Len(trs) THEN 0 ELSE trs[n].exit_price * trs[n].lots + Credited(trs, n + 1)

\* Entry cost of the rows from id on that this step entered.
RECURSIVE Charged(_, _, _)
Charged(before, after, id) ==
    IF id > Len(after) THEN 0
    ELSE (IF after[id].entered_at /\ ~(id <= Len(before) /\ before[id].entered_at)
          THEN after[id].actual_entry_price * after[id].lots ELSE 0)
         + Charged(before, after, id + 1)

\* The level the scan found touched on an entered row.
TouchedLevel(s) == IF s.alert = "sl_hit" THEN s.stop_loss ELSE s.take_profit

C18_PendingBecomesTriggered ==
    [][\A id \in 1..Len(signals) :
          (/\ signals[id].status = "pending"
           /\ \E j \in 1..Len(signals') :
                 /\ signals'[j].ticker = signals[id].ticker
                 /\ signals'[j].status = "triggered"
                 /\ j <= Len(signals) => signals[j].status # "triggered")
          => /\ Len(signals') = Len(signals)
             /\ signals'[id].status = "triggered"
             /\ signals'[id].entry_price # None]_vars

\* C19: for either direction, every pivot pair and every ATR > 0 (with
\* min_atr_risk <= max_atr_risk), the levels calculate_levels returns satisfy
\* min_atr_risk * ATR <= |entry - stop_loss| <= max_atr_risk * ATR, and
\* take_profit lies on the other side of entry from the stop at distance
\* |entry - stop_loss| * risk_reward_ratio.
C19_LevelBounds ==
    (calc.fn = "calculate_levels" /\ calc.returned) =>
        LET lv == calc.levels
            Dist(a, b) == IF a >= b THEN a - b ELSE b - a
            risk == Dist(lv.entry_price, lv.stop_loss)
        IN  /\ calc.atr * calc.par.min_atr_risk <= risk
            /\ risk <= calc.atr * calc.par.max_atr_risk
            /\ Dist(lv.take_profit, lv.entry_price) = risk * risk_reward_ratio
            /\ calc.direction = "long" =>
                  lv.stop_loss < lv.entry_price /\ lv.entry_price < lv.take_profit
            /\ calc.direction = "short" =>
                  lv.take_profit < lv.entry_price /\ lv.entry_price < lv.stop_loss

C21_NoMainWithoutPivots ==
    (calc.fn = "evaluate" /\ calc.returned
        /\ (calc.last_peak = None \/ calc.last_trough = None))
    => (~calc.main_condition_met /\ calc.levels = NoLevels)

\* C23: a failed scan cycle never ends a scheduler loop.  After a cycle of
\* the live loop ended with an exception, the loop begins a further cycle
\* unless it is stopped; a pass of the backtest loop that failed (its cycle
\* ended with an exception, or the pass raised into the loop's handler)
\* advances the clock, and the loop then continues with its next pass or, the
\* end date being passed, leaves for its closing block.
C23_LoopSurvivesFailure ==
    /\ (scheduler = "live" /\ taskPc = "scan" /\ scanPc["loop"] = "finished"
           /\ hist.ended["loop"] = "raised")
          ~> (~is_running \/ (taskPc = "scan" /\ scanPc["loop"] = "started"))
    /\ (scheduler = "sim" /\ taskPc = "bt_scan" /\ scanPc["loop"] = "finished"
           /\ hist.ended["loop"] = "raised")
          ~> (~is_running \/ taskPc \in {"bt_top", "bt_eod", "bt_post"})
    /\ [][(/\ scheduler = "sim" /\ is_running /\ is_running' /\ tm.is_active
            /\ \/ taskPc = "bt_top"
               \/ taskPc = "bt_scan" /\ hist.ended["loop"] = "raised"
            /\ taskPc' \in {"bt_top", "bt_eod", "bt_post"})
              => /\ ClockAdvances
                 /\ taskPc' = "bt_post" => tm'.day > tm'.end_date]_vars

\* A cycle of the running live loop has raised; or a cycle of the backtest
\* loop has raised on the second trading day, after the cycles that raised on
\* the first.
C23_Witness ==
    /\ is_running /\ ~cancelReq
    /\ scanPc["loop"] = "finished" /\ hist.ended["loop"] = "raised"
    /\ \/ scheduler = "live" /\ taskPc = "scan"
       \/ scheduler = "sim" /\ taskPc = "bt_scan" /\ tm.day = FirstDay + 1

\* C24: the replay data cache is invalidated at every simulated day
\* boundary: a scan cycle whose sim_time is the clock's current day is never
\* served a cache entry that was stored for an earlier simulated day.
C24_CacheFreshPerDay ==
    [][\A p \in Callers, i \in Items :
          (/\ scanRes[p][i].kind = "todo" /\ scanRes'[p][i].kind = "ok"
           /\ simTime[p] = tm.day /\ cache[i] # None)
             => cache[i] >= simTime[p]]_vars

\* C25: notifications - the replay scheduler hands no triggered or
\* entry-reached notification to the e-mail service; in the live scheduler
\* the entry-reached notification of a row is sent in exactly the steps that
\* change its entry_reached flag from false to true, so at most once, and the
\* flag of a row is never reset.
C25_Notifications ==
    /\ [](scheduler = "sim" =>
            \A k \in DOMAIN hist.mails, id \in 1..MaxSignals : hist.mails[k][id] = 0)
    /\ [](\A id \in 1..MaxSignals : hist.mails["entryReached"][id] <= 1)
    /\ [][\A id \in 1..MaxSignals :
            (id <= Len(signals) /\ id <= Len(signals')) =>
               /\ signals[id].entry_reached => signals'[id].entry_reached
               /\ scheduler = "live" =>
                     ((hist'.mails["entryReached"][id] # hist.mails["entryReached"][id])
                        <=> (~signals[id].entry_reached /\ signals'[id].entry_reached))]_vars

\* A triggered row whose entry-reached notification was sent has been scanned
\* again later, at a price back below its entry level.
C25_Witness ==
    /\ scheduler = "live"
    /\ \E id \in 1..Len(signals) :
          /\ hist.mails["entryReached"][id] = 1 /\ hist.mails["triggered"][id] = 1
          /\ signals[id].entry_reached /\ signals[id].status = "triggered"
          /\ signals[id].current_price < signals[id].entry_price

\* C26: within a batch, results are applied only after every fetch of the
\* batch has finished, one ticker at a time in watchlist order: a step of a
\* cycle that writes the tables or applies a result is taken with no fetch of
\* the batch outstanding, applies the result of the next item in order, and
\* no later item of the batch has been applied before it.  The active row each
\* task found is still the pair's active row when its result is applied, so
\* the resulting tables do not depend on the order the fetches completed in.
C26_BatchAppliedInOrder ==
    /\ [][\A p \in Callers :
            (/\ scanPc[p] \in {"fetch", "process"}
             /\ storeVars' # storeVars \/ hist'.applied[p] # hist.applied[p])
               => /\ scanPc[p] = "process"
                  /\ \A j \in Batch(scanBatch[p]) : scanRes[p][j].kind # "todo"
                  /\ hist'.applied[p] = hist.applied[p] \cup {scanIdx[p]}
                  /\ \A j \in Batch(scanBatch[p]) :
                        /\ (j < scanIdx[p] /\ scanRes[p][j].kind = "ok")
                              => j \in hist.applied[p]
                        /\ j >= scanIdx[p] => j \notin hist.applied[p]]_vars
    /\ [](\A p \in Callers, j \in 1..watchlist :
            (/\ scanPc[p] \in {"fetch", "process"}
             /\ scanRes[p][j].kind = "ok" /\ j \notin hist.applied[p])
               => scanRes[p][j].existing = ExistingSignal(signals, j))

\* Both results of the first batch wrote a row each, in watchlist order, and
\* the cycle has gone on to the next batch.
C26_Witness ==
    \E p \in Callers :
        /\ scanPc[p] = "fetch" /\ scanBatch[p] = SCAN_BATCH_SIZE
        /\ hist.applied[p] = 1..SCAN_BATCH_SIZE
        /\ Len(signals) = SCAN_BATCH_SIZE
        /\ signals[1].ticker = 1 /\ signals[2].ticker = 2

\* C27: live and replay share one lifecycle logic: for the row a live cycle
\* found for a pair (none, pending, triggered or entered) and the result it is
\* about to apply, _process_result of the live scanner and _process_result of
\* the replay scanner leave the same Signal statuses, the same created rows
\* and the same entry_reached flags.
C27_LiveReplaySameLifecycle ==
    \A p \in Callers :
        (scanPc[p] = "process" /\ scanRes[p][scanIdx[p]].kind = "ok") =>
            LET res == scanRes[p][scanIdx[p]]
                live == process_result(signals, trades, scanIdx[p], res.result, res.existing)
                replay == sim_process_result(signals, trades, tm, scanIdx[p],
                                             res.result, res.existing)
            IN  /\ Len(live.signals) = Len(replay.signals)
                /\ \A id \in 1..Len(live.signals) :
                      /\ live.signals[id].status = replay.signals[id].status
                      /\ live.signals[id].ticker = replay.signals[id].ticker
                      /\ live.signals[id].entry_reached = replay.signals[id].entry_reached

\* C28: in manual-step replay the loop scans once per simulated hour: it
\* starts no scan cycle at the virtual time of the last scan it completed, and
\* so scans again only after the clock has been advanced (pause and resume
\* included).
C28_OneScanPerHour ==
    [][(scheduler = "sim" /\ taskPc = "rp_top" /\ taskPc' = "rp_scan")
          => hist.scanned # <<tm.day, tm.hour>>]_vars

\* C29: a scan cycle that was in flight when its scheduler was stopped is not
\* left partially applied: of the cancelled cycle either no result has been
\* applied to the tables, or every ticker's result has (a ticker whose fetch
\* failed has no result).
C29_StoppedCycleAllOrNone ==
    \A p \in Callers :
        hist.ended[p] = "cancelled" =>
            \/ hist.applied[p] = {}
            \/ \A i \in 1..watchlist :
                  i \in hist.applied[p] \/ scanRes[p][i].kind \in FailKinds

\* C30: creation and pending-cancellation rule, for the result a cycle is
\* about to apply, in the live and in the replay scanner: with no non-terminal
\* Signal for the pair, a precondition-only result creates a pending Signal, a
\* main-condition result creates a triggered Signal, and a result with neither
\* creates nothing; an existing pending Signal is cancelled when the
\* precondition is no longer met, and a triggered or entered Signal is never
\* cancelled because the precondition is lost.
C30_CreationAndCancellation ==
    \A p \in Callers :
        (scanPc[p] = "process" /\ scanRes[p][scanIdx[p]].kind = "ok") =>
            LET i == scanIdx[p]
                r == scanRes[p][i].result
                e == scanRes[p][i].existing
                n == Len(signals)
                Rule(after) ==
                    /\ (e = None /\ r.precondition_met /\ ~r.main_condition_met)
                          => /\ Len(after) = n + 1
                             /\ after[n + 1].status = "pending"
                             /\ after[n + 1].ticker = i
                    /\ (e = None /\ r.main_condition_met)
                          => /\ Len(after) = n + 1
                             /\ after[n + 1].status = "triggered"
                             /\ after[n + 1].ticker = i
                    /\ (e = None /\ ~r.precondition_met /\ ~r.main_condition_met)
                          => after = signals
                    /\ (e # None /\ ~r.precondition_met /\ ~r.main_condition_met)
                          => /\ Len(after) = n
                             /\ signals[e].status = "pending"
                                   => after[e].status = "cancelled"
                             /\ signals[e].status \in {"triggered", "entered"}
                                   => after[e].status # "cancelled"
            IN  /\ Rule(process_result(signals, trades, i, r, e).signals)
                /\ Rule(sim_process_result(signals, trades, tm, i, r, e).signals)

\* C31: when a cycle applies a result to an existing triggered Signal that
\* carries its levels, the price checks come in a fixed order whatever the
\* strategy flags are: stop_loss crossed gives stopped; otherwise take_profit
\* crossed gives target_hit; otherwise the status stays triggered and
\* entry_reached is set exactly if it was set already or the price reaches
\* entry_price.  The step writes no TradeHistory row and leaves the balance.
C31_TriggeredPriceChecks ==
    [][\A p \in Callers :
          (/\ scanPc[p] = "process" /\ scanIdx'[p] = scanIdx[p] + 1
           /\ scanRes[p][scanIdx[p]].kind = "ok"
           /\ scanRes[p][scanIdx[p]].existing # None
           /\ signals[scanRes[p][scanIdx[p]].existing].status = "triggered"
           /\ signals[scanRes[p][scanIdx[p]].existing].stop_loss # None
           /\ signals[scanRes[p][scanIdx[p]].existing].take_profit # None
           /\ signals[scanRes[p][scanIdx[p]].existing].entry_price # None)
             => LET e == scanRes[p][scanIdx[p]].existing
                    cp == scanRes[p][scanIdx[p]].result.current_price
                    s == signals[e]
                IN  /\ trades' = trades
                    /\ tm'.current_balance = tm.current_balance
                    /\ Len(signals') = Len(signals)
                    /\ IF CrossesStop(s, cp) THEN signals'[e].status = "stopped"
                       ELSE IF CrossesTarget(s, cp) THEN signals'[e].status = "target_hit"
                       ELSE /\ signals'[e].status = "triggered"
                            /\ signals'[e].entry_reached
                                  <=> (s.entry_reached \/ ReachesEntry(s, cp))]_vars

\* A triggered Signal reached its entry level in one scan and its target in a
\* later one, never entered: closed as target_hit with no trade recorded.
C31_Witness ==
    \E id \in 1..Len(signals) :
        /\ signals[id].status = "target_hit"
        /\ signals[id].entry_reached /\ ~signals[id].entered_at
        /\ trades = <<>>

\* C32: within one run of the live loop the day-end cleanup executes at most
\* once per calendar day, and a pass that finds the market closed on a weekday
\* after having seen it open, or finds it closed after 18:00 on a weekday (as
\* the first pass of a loop started after the close does), leaves the cleanup
\* of that day executed.
C32_DayEndCleanupOncePerDay ==
    /\ [](\A d \in FirstDay..LastDay : hist.cleaned[d] <= 1)
    /\ [][(/\ scheduler = "live"
            /\ taskPc = "top" /\ taskPc' = "top"
            /\ is_running /\ is_running' /\ ~cancelReq /\ ~cancelReq'
            /\ now' = now
            /\ Weekday(now.day) < 5 /\ ~is_bist_market_open(now)
            /\ (loopLocals.was_market_open \/ now.slot = "post"))
              => hist'.cleaned[now.day] = 1]_vars

\* The loop cleaned up on Thursday at the close it observed and again on
\* Friday, and is still running on Friday evening.
C32_Witness ==
    /\ scheduler = "live" /\ is_running /\ taskPc = "top"
    /\ now = [day |-> FirstDay + 1, slot |-> "post"]
    /\ hist.cleaned[FirstDay] = 1 /\ hist.cleaned[FirstDay + 1] = 1
    /\ ~loopLocals.was_market_open
    /\ \E id \in 1..Len(signals) : signals[id].status = "cancelled"

\* C33: during a replay session the balance never becomes negative: an entry,
\* automatic or confirmed by hand, is applied only when entry price * lots is
\* within the current balance.
C33_BalanceNeverNegative ==
    /\ [](scheduler = "sim" => tm.current_balance >= 0)
    /\ [][\A id \in 1..MaxSignals :
            (/\ scheduler = "sim" /\ id <= Len(signals) /\ id <= Len(signals')
             /\ signals[id].status # "entered" /\ signals'[id].status = "entered")
               => /\ EntryOf(signals'[id]) * signals'[id].lots <= tm.current_balance
                  /\ tm'.current_balance
                        = tm.current_balance - EntryOf(signals'[id]) * signals'[id].lots]_vars

\* A hand-confirmed entry of two lots has used up most of the balance while a
\* second signal waits at its entry level, which the balance no longer covers.
C33_Witness ==
    /\ scheduler = "sim" /\ tm.is_active
    /\ \E id \in 1..Len(signals) :
          /\ signals[id].status = "entered" /\ signals[id].lots = MaxLots
          /\ tm.current_balance < LongLevels.entry_price

\* exit_price * lots of the entered rows from id on that carry an alert: what
\* step 1 of the auto trade pays back before step 2 looks at the balance.
RECURSIVE AutoExitCredit(_, _)
AutoExitCredit(sigs, id) ==
    IF id > Len(sigs) THEN 0
    ELSE (IF sigs[id].status = "entered" /\ sigs[id].alert \in {"sl_hit", "tp_hit"}
          THEN TouchedLevel(sigs[id]) * sigs[id].lots ELSE 0)
         + AutoExitCredit(sigs, id + 1)

\* Entry cost of the rows before id that this step entered.
RECURSIVE ChargedBefore(_, _, _)
ChargedBefore(before, after, id) ==
    IF id <= 1 THEN 0
    ELSE ChargedBefore(before, after, id - 1)
         + (IF after[id - 1].entered_at /\ ~before[id - 1].entered_at
            THEN after[id - 1].actual_entry_price * after[id - 1].lots ELSE 0)

C36_ScanTimesInSession ==
    \A p \in Callers :
        (scheduler = "sim" /\ tm.is_active /\ scanPc[p] # "idle" /\ simTime[p] # None)
           => /\ Weekday(simTime[p]) < 5
              /\ simTime[p] <= tm.end_date
              /\ tm.hour >= OpenHour /\ tm.hour < CloseHour

\* C37: while a replay session is active, total_trades = winning_trades +
\* losing_trades = the number of trade rows of the session, and total_profit
\* = the sum of the rows' profit_tl.
C37_StatsMatchTradeLog ==
    (scheduler = "sim" /\ tm.is_active) =>
        /\ tm.total_trades = tm.winning_trades + tm.losing_trades
        /\ tm.total_trades = Len(trades)
        /\ tm.total_profit = SumProfit(trades)

\* C38: no look-ahead - the candle frame a strategy receives for virtual time
\* T (end_time), from the cache or from a fresh download, holds no candle
\* later than T.
C38_NoLookAhead ==
    (calc.fn = "_get_historical_data" /\ calc.returned)
       => \A c \in calc.data : c <= calc.end_time

\* a call was served from a cached frame that reaches past its end_time
C38_Witness ==
    /\ calc.fn = "_get_historical_data" /\ calc.returned
    /\ calc.data # {} /\ calc.data \subseteq calc.cached
    /\ calc.stored = calc.cached
    /\ \E c \in calc.cached : c > calc.end_time

\* C39: a row that was entered and has reached a terminal status (stopped,
\* target_hit, closed or cancelled) has trade rows whose lots sum to its lots.
C39_EnteredPositionAccounted ==
    \A id \in 1..Len(signals) :
        (signals[id].entered_at /\ signals[id].status \in Terminal)
           => SoldLots(trades, id) = signals[id].lots

\* C40: is_scanning never stays stuck - when no scan cycle is in flight and no
\* stop() call is in progress, the flag is false.
C40_ScanFlagReleased ==
    (/\ \A p \in Callers : scanPc[p] = "idle"
     /\ stopPc \in {"idle", "returned"})
       => ~is_scanning

\* ------------------------------------------------ properties: scan cycle
\* A batch of p's cycle in which one fetch failed and another succeeded.
MixedBatch(p) ==
    \E i, j \in 1..watchlist :
        /\ \E b \in 0..NumItems : {i, j} \subseteq Batch(b) /\ b % SCAN_BATCH_SIZE = 0
        /\ scanRes[p][i].kind \in FailKinds
        /\ scanRes[p][j].kind = "ok"

\* C5: fetch isolation - when a cycle with such a batch has ended (not by
\* cancellation), the result of every ticker fetched successfully was applied,
\* no failed ticker's result was applied, and every batch was scanned.
C5_FetchIsolation ==
    \A p \in Callers :
        (scanPc[p] = "finished" /\ hist.ended[p] # "cancelled" /\ MixedBatch(p))
           => /\ \A i \in 1..watchlist : scanRes[p][i].kind # "todo"
              /\ hist.applied[p] = { i \in 1..watchlist : scanRes[p][i].kind = "ok" }

\* C22: ticker isolation - an exception while one ticker's result is applied
\* removes only that ticker from the cycle: when the cycle has ended (not by
\* cancellation) every batch was fetched, and every successfully fetched
\* ticker other than the one whose processing raised had its result applied.
C22_TickerIsolation ==
    \A p \in Callers :
        (scanPc[p] = "finished" /\ hist.ended[p] # "cancelled")
           => /\ \A i \in 1..watchlist : scanRes[p][i].kind # "todo"
              /\ \A i \in 1..watchlist :
                    (scanRes[p][i].kind = "ok" /\ i \notin hist.applied[p])
                       => (hist.ended[p] = "raised" /\ i = scanIdx[p])

\* Callers with a live scan cycle in progress: a cycle is in progress until
\* its finally block has reset the flag; what is left of it then are the
\* closing broadcasts.
InFlight == { p \in Callers : scanPc[p] \in {"started", "fetch", "process"} }

\* C6: live single-flight - never two scan_all cycles in progress, and a
\* scan_all call that finds is_scanning set changes neither the tables nor any
\* cycle (it is dropped, not queued).
C6_LiveSingleFlight ==
    [][/\ Cardinality(InFlight') <= 1
       /\ (~hist.dropped /\ hist'.dropped) =>
             /\ is_scanning
             /\ UNCHANGED <<storeVars, scanVars, schedVars>>]_vars

\* A scan_all call was dropped while another caller's cycle was fetching or
\* processing.
C6_Witness ==
    hist.dropped /\ \E p \in Callers : scanPc[p] \in {"fetch", "process"}

====
